---------------------------- MODULE Spec2Model ----------------------------
(***************************************************************************)
(* Model of the beatmap parser of src/src/parse/mod.rs and of the          *)
(* attribute adjustment of src/src/parse/attributes.rs.                    *)
(*                                                                         *)
(* Text is a sequence of characters, each character a one-element string   *)
(* ("BOM" stands for U+FEFF).  A raw line is what read_line leaves in the  *)
(* buffer, line terminator included; the empty text is what a read that    *)
(* returns 0 leaves (end of stream).                                       *)
(*                                                                         *)
(* Floating point values are fixed-point numbers in tenths, with           *)
(* the non-finite values kept apart: a float is a record [cls, v] with     *)
(* cls one of "fin", "nan", "inf", "ninf".  The literals of the line       *)
(* vocabulary have at most one fractional digit.                           *)
(***************************************************************************)
EXTENDS Integers, Sequences, FiniteSets, TLC

VARIABLES
    feat,       \* the cargo features of the build
    pc,         \* "header", "body" or "done": position in parse_body
    section,    \* the local `section` of parse_body
    loc,        \* the locals of the section parser that is running
    map,        \* the Beatmap under construction
    nread,      \* number of lines the line source has delivered
    eof,        \* a read_line call returned 0
    raw,        \* buf after the last read_line
    line,       \* the prepared line of the last read (line_prepare!)
    disp,       \* what the last read led to, and the function that read it
    keys,       \* the keys of the key/value lines delivered so far
    result,     \* "none" while parsing, then "ok", an error or "panic"
    attrs,      \* the BeatmapAttributes taken of the map, None before
    mods        \* the mods BeatmapAttributes::mods was called with, None before

vars == <<feat, pc, section, loc, map, nread, eof, raw, line, disp, keys, result,
          attrs, mods>>

(***************************************************************************)
(* Bounds of the model.                                                    *)
(***************************************************************************)
MaxLines == 8

(***************************************************************************)
(* Text primitives (the str methods the parser uses).                      *)
(***************************************************************************)
IsWhitespace(c) == c \in {" ", "\t", "\n", "\r"}

IsDigit(c) == c \in {"0", "1", "2", "3", "4", "5", "6", "7", "8", "9"}

DigitVal(c) ==
    CASE c = "0" -> 0 [] c = "1" -> 1 [] c = "2" -> 2 [] c = "3" -> 3
      [] c = "4" -> 4 [] c = "5" -> 5 [] c = "6" -> 6 [] c = "7" -> 7
      [] c = "8" -> 8 [] c = "9" -> 9

Min(a, b) == IF a <= b THEN a ELSE b

Max(a, b) == IF a >= b THEN a ELSE b

Slice(s, from, to) == [i \in 1..(to - from + 1) |-> s[from + i - 1]]

RECURSIVE trim_end(_)
trim_end(s) ==
    IF s # <<>> /\ IsWhitespace(s[Len(s)]) THEN trim_end(Slice(s, 1, Len(s) - 1))
    ELSE s

RECURSIVE trim_start(_)
trim_start(s) ==
    IF s # <<>> /\ IsWhitespace(s[1]) THEN trim_start(Tail(s)) ELSE s

trim(s) == trim_start(trim_end(s))

\* buf.trim_matches(|c| c.is_whitespace() || c == U+FEFF)
RECURSIVE trim_bom_end(_)
trim_bom_end(s) ==
    IF s # <<>> /\ (IsWhitespace(s[Len(s)]) \/ s[Len(s)] = "BOM")
    THEN trim_bom_end(Slice(s, 1, Len(s) - 1))
    ELSE s

RECURSIVE trim_bom_start(_)
trim_bom_start(s) ==
    IF s # <<>> /\ (IsWhitespace(s[1]) \/ s[1] = "BOM")
    THEN trim_bom_start(Tail(s))
    ELSE s

trim_matches_ws_bom(s) == trim_bom_start(trim_bom_end(s))

starts_with(s, p) == Len(s) >= Len(p) /\ Slice(s, 1, Len(p)) = p

ends_with(s, p) ==
    Len(s) >= Len(p) /\ Slice(s, Len(s) - Len(p) + 1, Len(s)) = p

\* str::find: the first position (from 1) where pat starts, 0 when there is none
find(s, pat) ==
    LET hits == {i \in 1..(Len(s) - Len(pat) + 1) :
                    Slice(s, i, i + Len(pat) - 1) = pat}
    IN  IF hits = {} THEN 0 ELSE CHOOSE i \in hits : \A j \in hits : i <= j

\* str::split(c): the pieces between the occurrences of c (always at least one)
RECURSIVE split(_, _)
split(s, c) ==
    LET i == find(s, <<c>>)
    IN  IF i = 0 THEN <<s>>
        ELSE <<Slice(s, 1, i - 1)>> \o split(Slice(s, i + 1, Len(s)), c)

(***************************************************************************)
(* Number parsing (str::parse).  A parse result is [ok, ...].              *)
(***************************************************************************)
RECURSIVE DigitsVal(_)
DigitsVal(s) ==
    IF s = <<>> THEN 0 ELSE 10 * DigitsVal(Slice(s, 1, Len(s) - 1)) + DigitVal(s[Len(s)])

AllDigits(s) == s # <<>> /\ \A i \in 1..Len(s) : IsDigit(s[i])

\* unsigned integer types: an optional "+", then digits, within the type's range
parse_uint(s, max) ==
    LET d == IF s # <<>> /\ s[1] = "+" THEN Tail(s) ELSE s
    IN  IF AllDigits(d) /\ DigitsVal(d) <= max
        THEN [ok |-> TRUE, v |-> DigitsVal(d)]
        ELSE [ok |-> FALSE, v |-> 0]

U8Max == 255

\* usize: no literal of the line vocabulary comes near the type's range
parse_usize(s) ==
    LET d == IF s # <<>> /\ s[1] = "+" THEN Tail(s) ELSE s
    IN  IF AllDigits(d) THEN [ok |-> TRUE, v |-> DigitsVal(d)]
        ELSE [ok |-> FALSE, v |-> 0]

Fin(v) == [cls |-> "fin", v |-> v]

NaN == [cls |-> "nan", v |-> 0]

PInf == [cls |-> "inf", v |-> 0]

NInf == [cls |-> "ninf", v |-> 0]

\* f32 and f64: sign, digits, at most one fractional digit; "inf" and "NaN"
parse_float(s) ==
    LET neg  == s # <<>> /\ s[1] = "-"
        body == IF s # <<>> /\ s[1] \in {"-", "+"} THEN Tail(s) ELSE s
        dot  == find(body, <<".">>)
        ip   == IF dot = 0 THEN body ELSE Slice(body, 1, dot - 1)
        fp   == IF dot = 0 THEN <<>> ELSE Slice(body, dot + 1, Len(body))
        mag  == 10 * DigitsVal(ip) + (IF fp = <<>> THEN 0 ELSE DigitVal(fp[1]))
    IN  IF body = <<"i", "n", "f">>
        THEN [ok |-> TRUE, f |-> IF neg THEN NInf ELSE PInf]
        ELSE IF body = <<"N", "a", "N">>
        THEN [ok |-> TRUE, f |-> NaN]
        ELSE IF /\ (ip # <<>> \/ fp # <<>>)
                /\ \A i \in 1..Len(ip) : IsDigit(ip[i])
                /\ Len(fp) <= 1
                /\ \A i \in 1..Len(fp) : IsDigit(fp[i])
        THEN [ok |-> TRUE, f |-> Fin(IF neg THEN 0 - mag ELSE mag)]
        ELSE [ok |-> FALSE, f |-> NaN]

\* FloatExt::validate
validate(f) == f.cls = "fin"

\* f64 comparison a < b (false whenever a NaN is involved)
FLt(a, b) ==
    CASE a.cls = "nan" \/ b.cls = "nan" -> FALSE
      [] a.cls = "inf" -> FALSE
      [] a.cls = "ninf" -> b.cls # "ninf"
      [] b.cls = "inf" -> TRUE
      [] b.cls = "ninf" -> FALSE
      [] OTHER -> a.v < b.v

(***************************************************************************)
(* Lines and sections.                                                     *)
(***************************************************************************)
OSU_FILE_HEADER ==
    <<"o", "s", "u", " ", "f", "i", "l", "e", " ", "f", "o", "r", "m", "a", "t", " ", "v">>

\* what read_line leaves in buf when it returns 0
EOF == <<>>

\* a header test that looks at the start of the line only
header_index_at_start(buf) == IF starts_with(buf, OSU_FILE_HEADER) THEN 1 ELSE 0

\* buf.find(OSU_FILE_HEADER): 0 is None
header_index(buf) == find(buf, OSU_FILE_HEADER)

skip_line(l) ==
    \/ l = <<>>
    \/ starts_with(l, <<"/", "/">>)
    \/ starts_with(l, <<" ">>)
    \/ starts_with(l, <<"_">>)

\* a line_prepare! that forgets trim_end
line_prepare_untrimmed(buf) ==
    LET idx == find(buf, <<"/", "/">>)
    IN  IF skip_line(buf) THEN [skip |-> TRUE, line |-> buf]
        ELSE [skip |-> FALSE, line |-> IF idx = 0 THEN buf ELSE Slice(buf, 1, idx - 1)]

\* line_prepare!: [skip] tells that the macro took its `continue`
line_prepare(buf) ==
    LET t   == trim_end(buf)
        idx == find(t, <<"/", "/">>)
    IN  IF skip_line(t) THEN [skip |-> TRUE, line |-> t]
        ELSE [skip |-> FALSE, line |-> IF idx = 0 THEN t ELSE Slice(t, 1, idx - 1)]

\* line.starts_with('[') && line.ends_with(']')
is_section_header(l) == starts_with(l, <<"[">>) /\ ends_with(l, <<"]">>)

\* a from_str whose fallback arm keeps the section that is active
Section_from_str_keep(s) ==
    CASE s = <<"G", "e", "n", "e", "r", "a", "l">> -> "General"
      [] s = <<"D", "i", "f", "f", "i", "c", "u", "l", "t", "y">> -> "Difficulty"
      [] s = <<"T", "i", "m", "i", "n", "g", "P", "o", "i", "n", "t", "s">> -> "TimingPoints"
      [] s = <<"H", "i", "t", "O", "b", "j", "e", "c", "t", "s">> -> "HitObjects"
      [] OTHER -> section

Section_from_str(s) ==
    CASE s = <<"G", "e", "n", "e", "r", "a", "l">> -> "General"
      [] s = <<"D", "i", "f", "f", "i", "c", "u", "l", "t", "y">> -> "Difficulty"
      [] s = <<"T", "i", "m", "i", "n", "g", "P", "o", "i", "n", "t", "s">> -> "TimingPoints"
      [] s = <<"H", "i", "t", "O", "b", "j", "e", "c", "t", "s">> -> "HitObjects"
      [] OTHER -> "None"

\* the section a header line names: Section::from_str(&line[1..line.len() - 1])
header_section(l) == Section_from_str(Slice(l, 2, Len(l) - 1))

\* split_colon: <<>> is None, <<key, value>> is Some((key, value))
split_colon(l) ==
    LET parts == split(l, ":")
    IN  IF Len(parts) < 2 THEN <<>> ELSE <<parts[1], trim(parts[2])>>

(***************************************************************************)
(* The Beatmap and the locals of the section parsers.  An Option is a      *)
(* sequence: <<>> is None and <<v>> is Some(v).                            *)
(***************************************************************************)
AllFeatures == {"osu", "taiko", "fruits", "mania", "sliders"}

\* Beatmap { version, hit_objects: Vec::with_capacity(256), ..Default::default() }
BeatmapDefault ==
    [mode |-> "STD", version |-> 0,
     n_circles |-> 0, n_sliders |-> 0, n_spinners |-> 0,
     ar |-> Fin(0), od |-> Fin(0), cs |-> Fin(0), hp |-> Fin(0),
     slider_mult |-> Fin(0), tick_rate |-> Fin(0),
     hit_objects |-> <<>>, timing_points |-> <<>>, difficulty_points |-> <<>>,
     bpm |-> Fin(0), stack_leniency |-> Fin(0)]

\* the `let mut` locals at the head of the four section parsers
LocalsInit ==
    [mode |-> <<>>, stack_leniency |-> <<>>,
     ar |-> <<>>, od |-> <<>>, cs |-> <<>>, hp |-> <<>>, sv |-> <<>>, tick_rate |-> <<>>,
     unsorted_timings |-> FALSE, unsorted_difficulties |-> FALSE,
     prev_diff |-> 0, prev_time |-> 0, first_line |-> TRUE,
     unsorted |-> FALSE]

Ok(m, l) == [err |-> "", map |-> m, loc |-> l]

Err(e, m, l) == [err |-> e, map |-> m, loc |-> l]

(***************************************************************************)
(* [General]                                                               *)
(***************************************************************************)
\* a general_line that reads the mode as a number (value.parse::<u8>())
general_line_numeric(l, m, lc, ft) ==
    LET kv    == split_colon(l)
        key   == kv[1]
        value == kv[2]
        n     == parse_uint(value, U8Max)
        md    == CASE n.ok /\ n.v = 0 -> <<"STD">>
                   [] n.ok /\ n.v = 1 -> <<"TKO">>
                   [] n.ok /\ n.v = 2 -> <<"CTB">>
                   [] n.ok /\ n.v = 3 -> <<"MNA">>
                   [] OTHER -> <<>>
        lc1   == IF key = <<"M", "o", "d", "e">> THEN [lc EXCEPT !.mode = md] ELSE lc
        sl    == parse_float(value)
    IN  IF kv = <<>> THEN Err("BadLine", m, lc)
        ELSE IF key = <<"M", "o", "d", "e">> /\ md = <<>> THEN Err("InvalidMode", m, lc)
        ELSE IF "osu" \in ft
                /\ key = <<"S", "t", "a", "c", "k", "L", "e", "n", "i", "e", "n", "c", "y">>
        THEN IF sl.ok THEN Ok(m, [lc1 EXCEPT !.stack_leniency = <<sl.f>>])
             ELSE Err("ParseFloat", m, lc)
        ELSE Ok(m, lc1)

\* one key/value line of parse_general_body
general_line(l, m, lc, ft) ==
    LET kv    == split_colon(l)
        key   == kv[1]
        value == kv[2]
        md    == CASE value = <<"0">> -> <<"STD">>
                   [] value = <<"1">> -> <<"TKO">>
                   [] value = <<"2">> -> <<"CTB">>
                   [] value = <<"3">> -> <<"MNA">>
                   [] OTHER -> <<>>
        lc1   == IF key = <<"M", "o", "d", "e">> THEN [lc EXCEPT !.mode = md] ELSE lc
        sl    == parse_float(value)
    IN  IF kv = <<>> THEN Err("BadLine", m, lc)
        ELSE IF key = <<"M", "o", "d", "e">> /\ md = <<>> THEN Err("InvalidMode", m, lc)
        ELSE IF "osu" \in ft
                /\ key = <<"S", "t", "a", "c", "k", "L", "e", "n", "i", "e", "n", "c", "y">>
        THEN IF sl.ok THEN Ok(m, [lc1 EXCEPT !.stack_leniency = <<sl.f>>])
             ELSE Err("ParseFloat", m, lc)
        ELSE Ok(m, lc1)

\* an end of [General] that keeps the mode of the Beatmap when the section had
\* no Mode key
general_end_keeping_mode(m, lc, ft) ==
    LET md == IF lc.mode = <<>> THEN m.mode ELSE lc.mode[1]
        m1 == [m EXCEPT !.mode = md]
        m2 == [m1 EXCEPT !.stack_leniency =
                   IF lc.stack_leniency = <<>> THEN Fin(7) ELSE lc.stack_leniency[1]]
    IN  IF \/ md = "STD" /\ "osu" \notin ft
           \/ md = "TKO" /\ "taiko" \notin ft
           \/ md = "CTB" /\ "fruits" \notin ft
           \/ md = "MNA" /\ "mania" \notin ft
        THEN {Err("UnincludedMode", m1, lc)}
        ELSE IF "osu" \in ft THEN {Ok(m2, lc)} ELSE {Ok(m1, lc)}

\* an end of [General] that sorts the hit objects again when the mode is Mania
general_end_resorting(m, lc, ft) ==
    LET md == IF lc.mode = <<>> THEN "STD" ELSE lc.mode[1]
        m1 == [m EXCEPT !.mode = md,
                        !.hit_objects =
                            IF md = "MNA"
                            THEN [i \in 1..Len(@) |->
                                     @[CHOOSE k \in 1..Len(@) :
                                          Cardinality({j \in 1..Len(@) :
                                              \/ @[j].start_time < @[k].start_time
                                              \/ @[j].start_time = @[k].start_time /\ j < k})
                                          = i - 1]]
                            ELSE @]
        m2 == [m1 EXCEPT !.stack_leniency =
                   IF lc.stack_leniency = <<>> THEN Fin(7) ELSE lc.stack_leniency[1]]
    IN  IF \/ md = "STD" /\ "osu" \notin ft
           \/ md = "TKO" /\ "taiko" \notin ft
           \/ md = "CTB" /\ "fruits" \notin ft
           \/ md = "MNA" /\ "mania" \notin ft
        THEN {Err("UnincludedMode", m1, lc)}
        ELSE IF "osu" \in ft THEN {Ok(m2, lc)} ELSE {Ok(m1, lc)}

\* the code after the loop of parse_general_body
general_end(m, lc, ft) ==
    LET md == IF lc.mode = <<>> THEN "STD" ELSE lc.mode[1]
        m1 == [m EXCEPT !.mode = md]
        m2 == [m1 EXCEPT !.stack_leniency =
                   IF lc.stack_leniency = <<>> THEN Fin(7) ELSE lc.stack_leniency[1]]
    IN  IF \/ md = "STD" /\ "osu" \notin ft
           \/ md = "TKO" /\ "taiko" \notin ft
           \/ md = "CTB" /\ "fruits" \notin ft
           \/ md = "MNA" /\ "mania" \notin ft
        THEN {Err("UnincludedMode", m1, lc)}
        ELSE IF "osu" \in ft THEN {Ok(m2, lc)} ELSE {Ok(m1, lc)}

(***************************************************************************)
(* [Difficulty]                                                            *)
(***************************************************************************)
\* one key/value line of parse_difficulty_body
difficulty_line(l, m, lc, ft) ==
    LET kv    == split_colon(l)
        key   == kv[1]
        p     == parse_float(kv[2])
        field ==
            CASE key = <<"A", "p", "p", "r", "o", "a", "c", "h", "R", "a", "t", "e">> -> "ar"
              [] key = <<"O", "v", "e", "r", "a", "l", "l",
                         "D", "i", "f", "f", "i", "c", "u", "l", "t", "y">> -> "od"
              [] key = <<"C", "i", "r", "c", "l", "e", "S", "i", "z", "e">> -> "cs"
              [] key = <<"H", "P", "D", "r", "a", "i", "n", "R", "a", "t", "e">> -> "hp"
              [] key = <<"S", "l", "i", "d", "e", "r", "T", "i", "c", "k",
                         "R", "a", "t", "e">> -> "tick_rate"
              [] key = <<"S", "l", "i", "d", "e", "r", "M", "u", "l", "t", "i", "p", "l",
                         "i", "e", "r">> -> "sv"
              [] OTHER -> ""
    IN  IF kv = <<>> THEN Err("BadLine", m, lc)
        ELSE IF field = "" THEN Ok(m, lc)
        ELSE IF ~p.ok THEN Err("ParseFloat", m, lc)
        ELSE Ok(m, [lc EXCEPT ![field] = <<p.f>>])

\* a difficulty_end whose ar falls back to self.od as it was before the section
difficulty_end_stale_od(m, lc, ft) ==
    IF lc.od = <<>> THEN {Err("MissingField(od)", m, lc)}
    ELSE IF lc.cs = <<>> THEN {Err("MissingField(cs)", m, lc)}
    ELSE IF lc.hp = <<>> THEN {Err("MissingField(hp)", m, lc)}
    ELSE IF lc.sv = <<>> THEN {Err("MissingField(sv)", m, lc)}
    ELSE IF lc.tick_rate = <<>> THEN {Err("MissingField(tick rate)", m, lc)}
    ELSE {Ok([m EXCEPT !.od = lc.od[1], !.cs = lc.cs[1], !.hp = lc.hp[1],
                       !.ar = IF lc.ar = <<>> THEN m.od ELSE lc.ar[1],
                       !.slider_mult = lc.sv[1], !.tick_rate = lc.tick_rate[1]], lc)}

\* the code after the loop of parse_difficulty_body
difficulty_end(m, lc, ft) ==
    IF lc.od = <<>> THEN {Err("MissingField(od)", m, lc)}
    ELSE IF lc.cs = <<>> THEN {Err("MissingField(cs)", m, lc)}
    ELSE IF lc.hp = <<>> THEN {Err("MissingField(hp)", m, lc)}
    ELSE IF lc.sv = <<>> THEN {Err("MissingField(sv)", m, lc)}
    ELSE IF lc.tick_rate = <<>> THEN {Err("MissingField(tick rate)", m, lc)}
    ELSE {Ok([m EXCEPT !.od = lc.od[1], !.cs = lc.cs[1], !.hp = lc.hp[1],
                       !.ar = IF lc.ar = <<>> THEN lc.od[1] ELSE lc.ar[1],
                       !.slider_mult = lc.sv[1], !.tick_rate = lc.tick_rate[1]], lc)}

(***************************************************************************)
(* Sorting.  T: PartialOrd of TimingPoint, DifficultyPoint and HitObject   *)
(* compares the time of the records (HitObject: start_time).               *)
(***************************************************************************)
IndexPerms(n) ==
    {p \in [1..n -> 1..n] : \A i, j \in 1..n : i # j => p[i] # p[j]}

\* non-decreasing in the key
PointTime(pt) == pt.time

StartTime(h) == h.start_time

\* the key partial_cmp compares: start_time for a HitObject, time for a
\* TimingPoint or DifficultyPoint
CmpKey(e) == IF "start_time" \in DOMAIN e THEN StartTime(e) ELSE PointTime(e)

IsSorted(s) == \A i \in 1..(Len(s) - 1) : CmpKey(s[i]) <= CmpKey(s[i + 1])

\* slice.sort_unstable_by(partial_cmp): sorted, equal elements in any order
sort_unstable(s) ==
    {r \in {[i \in 1..Len(s) |-> s[p[i]]] : p \in IndexPerms(Len(s))} : IsSorted(r)}

\* slice.sort_by(partial_cmp): sorted, equal elements in their former order
sort_by(s) ==
    LET p == CHOOSE q \in IndexPerms(Len(s)) :
                 \A i, j \in 1..Len(s) :
                     i < j => \/ CmpKey(s[q[i]]) < CmpKey(s[q[j]])
                              \/ CmpKey(s[q[i]]) = CmpKey(s[q[j]]) /\ q[i] < q[j]
    IN  [i \in 1..Len(s) |-> s[p[i]]]

(***************************************************************************)
(* [TimingPoints]                                                          *)
(***************************************************************************)
\* (-100.0 / beat_len).max(0.1).min(10.0) for beat_len < 0.0, in tenths
\* the quotient without .max(0.1).min(10.0)
speed_multiplier_unclamped(beat_len) ==
    IF beat_len.cls = "ninf" THEN 0 ELSE (0 - 10000) \div beat_len.v

speed_multiplier(beat_len) ==
    IF beat_len.cls = "ninf" THEN 1
    ELSE Min(Max((0 - 10000) \div beat_len.v, 1), 100)

\* one line of parse_timingpoints_body (with the `sliders` feature)
timingpoints_line(l, m, lc, ft) ==
    LET parts == split(l, ",")
        t     == parse_float(trim(parts[1]))
        b     == parse_float(trim(parts[2]))
        time  == t.f.v
    IN  IF ~t.ok THEN Err("ParseFloat", m, lc)
        ELSE IF ~validate(t.f) THEN Err("InvalidDecimalNumber", m, lc)
        ELSE IF Len(parts) < 2 THEN Err("MissingField(beat len)", m, lc)
        ELSE IF ~b.ok THEN Err("ParseFloat", m, lc)
        ELSE IF FLt(b.f, Fin(0))
        THEN Ok([m EXCEPT !.difficulty_points =
                     Append(@, [time |-> time,
                                speed_multiplier |-> speed_multiplier(b.f)])],
                IF time < lc.prev_diff
                THEN [lc EXCEPT !.unsorted_difficulties = TRUE]
                ELSE [lc EXCEPT !.prev_diff = time])
        ELSE Ok([m EXCEPT !.timing_points =
                     Append(@, [time |-> time, beat_len |-> b.f])],
                IF time < lc.prev_time
                THEN [lc EXCEPT !.unsorted_timings = TRUE]
                ELSE [lc EXCEPT !.prev_time = time])

\* the code after the loop of parse_timingpoints_body
timingpoints_end(m, lc, ft) ==
    LET tps == IF lc.unsorted_timings
               THEN sort_unstable(m.timing_points)
               ELSE {m.timing_points}
        dps == IF lc.unsorted_difficulties
               THEN sort_unstable(m.difficulty_points)
               ELSE {m.difficulty_points}
    IN  {Ok([m EXCEPT !.timing_points = tp, !.difficulty_points = dp], lc) :
            tp \in tps, dp \in dps}

\* fn bpm: beat_len.recip() * 1000.0 * 60.0, in tenths
bpm(beat_len) ==
    CASE beat_len.cls = "nan" -> NaN
      [] beat_len.cls \in {"inf", "ninf"} -> Fin(0)
      [] beat_len.v = 0 -> PInf
      [] OTHER -> Fin(6000000 \div beat_len.v)

\* the first line of the `short` parse_timingpoints_body: only beat_len is read
timingpoints_short_first(l, m, lc, ft) ==
    LET parts == split(l, ",")
        b     == parse_float(trim(parts[2]))
    IN  IF Len(parts) < 2 THEN Err("MissingField(beat_len)", m, lc)
        ELSE IF ~b.ok THEN Err("ParseFloat", m, lc)
        ELSE Ok([m EXCEPT !.bpm = bpm(b.f)], [lc EXCEPT !.first_line = FALSE])

(***************************************************************************)
(* Slider paths (mod osu_fruits).  Indices are the code's, from 0.         *)
(***************************************************************************)
FSub(a, b) ==
    CASE a.cls = "nan" \/ b.cls = "nan" -> NaN
      [] a.cls = "fin" /\ b.cls = "fin" -> Fin(a.v - b.v)
      [] a.cls = b.cls -> NaN
      [] a.cls = "inf" \/ b.cls = "ninf" -> PInf
      [] OTHER -> NInf

FEq(a, b) == a.cls # "nan" /\ b.cls # "nan" /\ a = b

\* f64::max: the other operand when one is a NaN
FMax(a, b) ==
    CASE a.cls = "nan" -> b
      [] b.cls = "nan" -> a
      [] FLt(a, b) -> b
      [] OTHER -> a

FMin(a, b) ==
    CASE a.cls = "nan" -> b
      [] b.cls = "nan" -> a
      [] FLt(b, a) -> b
      [] OTHER -> a

\* Pos2 == Pos2 (derived PartialEq on two f32)
PosEq(p, q) == FEq(p[1], q[1]) /\ FEq(p[2], q[2])

\* PathControlPoint::default()
PathControlPointDefault == [pos |-> <<Fin(0), Fin(0)>>, kind |-> <<>>]

PathType_from_str(s) ==
    CASE s = <<"L">> -> "Linear"
      [] s = <<"B">> -> "Bezier"
      [] s = <<"P">> -> "PerfectCurve"
      [] OTHER -> "Catmull"

read_point(value, start_pos) ==
    LET v == split(value, ":")
        x == parse_float(v[1])
        y == parse_float(v[2])
    IN  IF Len(v) >= 2 /\ x.ok /\ y.ok
        THEN [ok |-> TRUE,
              pt |-> [pos |-> <<FSub(x.f, start_pos[1]), FSub(y.f, start_pos[2])>>,
                      kind |-> <<>>]]
        ELSE [ok |-> FALSE, pt |-> PathControlPointDefault]

\* |cross product| <= f32::EPSILON: with any non-finite coordinate the product is
\* non-finite and the comparison false; on tenths the product is a whole number
is_linear(p0, p1, p2) ==
    /\ \A q \in {p0, p1, p2} : q[1].cls = "fin" /\ q[2].cls = "fin"
    /\ (p1[1].v - p0[1].v) * (p2[2].v - p0[2].v)
         - (p1[2].v - p0[2].v) * (p2[1].v - p0[1].v) = 0

\* a loop that lets the last control point of a segment start a new one
RECURSIVE implicit_segments_split_at_last(_, _, _, _, _, _)
implicit_segments_split_at_last(vertices, start_idx, end_idx0, end_point_len, path_kind, curve_points) ==
    LET end_idx == end_idx0 + 1
        n       == Len(vertices) - end_point_len
    IN  IF end_idx < n
        THEN IF ~PosEq(vertices[end_idx + 1].pos, vertices[end_idx].pos)
             THEN implicit_segments_split_at_last(vertices, start_idx, end_idx,
                                                  end_point_len, path_kind, curve_points)
             ELSE LET vs == [vertices EXCEPT ![end_idx].kind = <<path_kind>>]
                  IN  implicit_segments_split_at_last(
                          vs, end_idx + 1, end_idx, end_point_len, path_kind,
                          curve_points \o SubSeq(vs, start_idx + 1, end_idx))
        ELSE IF end_idx > start_idx
             THEN curve_points \o SubSeq(vertices, start_idx + 1, end_idx)
             ELSE curve_points

\* a loop that closes a segment at a repeated position without forcing the type
RECURSIVE implicit_segments_untyped(_, _, _, _, _, _)
implicit_segments_untyped(vertices, start_idx, end_idx0, end_point_len, path_kind, curve_points) ==
    LET end_idx == end_idx0 + 1
        n       == Len(vertices) - end_point_len
    IN  IF end_idx < n
        THEN IF \/ ~PosEq(vertices[end_idx + 1].pos, vertices[end_idx].pos)
                \/ end_idx = n - 1
             THEN implicit_segments_untyped(vertices, start_idx, end_idx, end_point_len,
                                            path_kind, curve_points)
             ELSE implicit_segments_untyped(
                      vertices, end_idx + 1, end_idx, end_point_len, path_kind,
                      curve_points \o SubSeq(vertices, start_idx + 1, end_idx))
        ELSE IF end_idx > start_idx
             THEN curve_points \o SubSeq(vertices, start_idx + 1, end_idx)
             ELSE curve_points

\* the implicit-segment loop of convert_points and the extend after it
RECURSIVE implicit_segments(_, _, _, _, _, _)
implicit_segments(vertices, start_idx, end_idx0, end_point_len, path_kind, curve_points) ==
    LET end_idx == end_idx0 + 1
        n       == Len(vertices) - end_point_len
    IN  IF end_idx < n
        THEN IF \/ ~PosEq(vertices[end_idx + 1].pos, vertices[end_idx].pos)
                \/ end_idx = n - 1
             THEN implicit_segments(vertices, start_idx, end_idx, end_point_len,
                                    path_kind, curve_points)
             ELSE LET vs == [vertices EXCEPT ![end_idx].kind = <<path_kind>>]
                  IN  implicit_segments(vs, end_idx + 1, end_idx, end_point_len, path_kind,
                                        curve_points \o SubSeq(vs, start_idx + 1, end_idx))
        ELSE IF end_idx > start_idx
             THEN curve_points \o SubSeq(vertices, start_idx + 1, end_idx)
             ELSE curve_points

\* a convert_points that does not fill in the point of the anchor
convert_vertices_no_anchor(kind0, all, first, end_point_len, curve_points) ==
    LET vertices == [i \in 1..Len(all) |-> all[i].pt]
        path_kind ==
            IF kind0 = "PerfectCurve"
            THEN IF Len(vertices) = 3
                 THEN IF is_linear(vertices[1].pos, vertices[2].pos, vertices[3].pos)
                      THEN "Linear" ELSE "PerfectCurve"
                 ELSE "Bezier"
            ELSE kind0
    IN  IF \E i \in 1..Len(all) : ~all[i].ok
        THEN [err |-> "InvalidCurvePoints", curve_points |-> curve_points]
        ELSE IF vertices = <<>>
        THEN [err |-> "panic", curve_points |-> curve_points]
        ELSE [err |-> "",
              curve_points |->
                  implicit_segments([vertices EXCEPT ![1].kind = <<path_kind>>],
                                    0, 0, end_point_len, path_kind, curve_points)]

\* a convert_points that gives the first vertex no type
convert_vertices_first_untyped(kind0, all, first, end_point_len, curve_points) ==
    LET vertices == (IF first THEN <<PathControlPointDefault>> ELSE <<>>)
                       \o [i \in 1..Len(all) |-> all[i].pt]
        path_kind ==
            IF kind0 = "PerfectCurve"
            THEN IF Len(vertices) = 3
                 THEN IF is_linear(vertices[1].pos, vertices[2].pos, vertices[3].pos)
                      THEN "Linear" ELSE "PerfectCurve"
                 ELSE "Bezier"
            ELSE kind0
    IN  IF \E i \in 1..Len(all) : ~all[i].ok
        THEN [err |-> "InvalidCurvePoints", curve_points |-> curve_points]
        ELSE IF vertices = <<>>
        THEN [err |-> "panic", curve_points |-> curve_points]
        ELSE [err |-> "",
              curve_points |->
                  implicit_segments(vertices,
                                    0, 0, end_point_len, path_kind, curve_points)]

\* convert_points from `let mut vertices` on: all holds what read_point made of
\* the points after the descriptor and of end_point.  [err, curve_points]; err
\* "panic" is the index out of bounds of `vertices[0].kind = ...` on an empty
\* `vertices`
convert_vertices(kind0, all, first, end_point_len, curve_points) ==
    LET vertices == (IF first THEN <<PathControlPointDefault>> ELSE <<>>)
                       \o [i \in 1..Len(all) |-> all[i].pt]
        path_kind ==
            IF kind0 = "PerfectCurve"
            THEN IF Len(vertices) = 3
                 THEN IF is_linear(vertices[1].pos, vertices[2].pos, vertices[3].pos)
                      THEN "Linear" ELSE "PerfectCurve"
                 ELSE "Bezier"
            ELSE kind0
    IN  IF \E i \in 1..Len(all) : ~all[i].ok
        THEN [err |-> "InvalidCurvePoints", curve_points |-> curve_points]
        ELSE IF vertices = <<>>
        THEN [err |-> "panic", curve_points |-> curve_points]
        ELSE [err |-> "",
              curve_points |->
                  implicit_segments([vertices EXCEPT ![1].kind = <<path_kind>>],
                                    0, 0, end_point_len, path_kind, curve_points)]

convert_points(points, end_point, first, offset, curve_points) ==
    convert_vertices(PathType_from_str(points[1]),
                     [i \in 1..(Len(points) - 1 + Len(end_point)) |->
                         IF i <= Len(points) - 1 THEN read_point(points[i + 1], offset)
                         ELSE read_point(end_point[1], offset)],
                     first, Len(end_point), curve_points)

\* the explicit-segment loop of parse_hitobjects_body over point_split, and the
\* convert_points call after it; segment_converted is the loop after the `?` on
\* the convert_points call of a segment, r what that call returned
RECURSIVE explicit_segments(_, _, _, _, _, _)
RECURSIVE segment_converted(_, _, _, _)
segment_converted(r, point_split, end_idx, pos) ==
    IF r.err # "" THEN r
    ELSE explicit_segments(point_split, end_idx, end_idx, FALSE, pos, r.curve_points)

explicit_segments(point_split, start_idx, end_idx0, first, pos, control_points) ==
    LET end_idx == end_idx0 + 1
    IN  IF end_idx < Len(point_split)
        THEN IF Len(point_split[end_idx + 1]) > 1
             THEN explicit_segments(point_split, start_idx, end_idx, first, pos,
                                    control_points)
             ELSE segment_converted(
                      convert_points(SubSeq(point_split, start_idx + 1, end_idx),
                                     IF end_idx + 1 < Len(point_split)
                                     THEN <<point_split[end_idx + 2]>> ELSE <<>>,
                                     first, pos, control_points),
                      point_split, end_idx, pos)
        ELSE IF end_idx > start_idx
             THEN convert_points(SubSeq(point_split, start_idx + 1, end_idx),
                                 <<>>, first, pos, control_points)
             ELSE [err |-> "", curve_points |-> control_points]

(***************************************************************************)
(* [HitObjects]                                                            *)
(***************************************************************************)
CIRCLE_FLAG == 1

SLIDER_FLAG == 2

SPINNER_FLAG == 8

HOLD_FLAG == 128

\* kind & FLAG > 0, FLAG a power of two
has_flag(kind, flag) == (kind \div flag) % 2 = 1

\* MAX_COORDINATE_VALUE (131_072.0), in tenths
MAX_COORDINATE_VALUE == Fin(10 * 131072)

\* a slider branch that converts the control points before it looks at repeats
slider_built_points_first(parts, repeats, r, plen) ==
    IF Len(parts) < 6 THEN [err |-> "MissingField(control points)"]
    ELSE IF Len(parts) < 7 THEN [err |-> "MissingField(repeats)"]
    ELSE IF ~repeats.ok THEN [err |-> "ParseInt"]
    ELSE IF r.err # "" THEN [err |-> r.err]
    ELSE IF repeats.v > 9000 THEN [err |-> "TooManyRepeats"]
    ELSE IF r.curve_points = <<>> THEN [err |-> "", kind |-> [tag |-> "Circle"]]
    ELSE IF Len(parts) < 8 THEN [err |-> "MissingField(pixel len)"]
    ELSE IF ~plen.ok THEN [err |-> "ParseFloat"]
    ELSE [err |-> "",
          kind |-> [tag |-> "Slider",
                    repeats |-> Max(repeats.v - 1, 0),
                    pixel_len |-> FMin(FMax(plen.f, Fin(0)), MAX_COORDINATE_VALUE),
                    control_points |-> r.curve_points]]

\* the slider branch with the `sliders` feature, from the parsed repeats, the
\* converted control points r and the parsed pixel length: [err, kind]
slider_built(parts, repeats, r, plen) ==
    IF Len(parts) < 6 THEN [err |-> "MissingField(control points)"]
    ELSE IF Len(parts) < 7 THEN [err |-> "MissingField(repeats)"]
    ELSE IF ~repeats.ok THEN [err |-> "ParseInt"]
    ELSE IF repeats.v > 9000 THEN [err |-> "TooManyRepeats"]
    ELSE IF r.err # "" THEN [err |-> r.err]
    ELSE IF r.curve_points = <<>> THEN [err |-> "", kind |-> [tag |-> "Circle"]]
    ELSE IF Len(parts) < 8 THEN [err |-> "MissingField(pixel len)"]
    ELSE IF ~plen.ok THEN [err |-> "ParseFloat"]
    ELSE [err |-> "",
          kind |-> [tag |-> "Slider",
                    repeats |-> Max(repeats.v - 1, 0),
                    pixel_len |-> FMin(FMax(plen.f, Fin(0)), MAX_COORDINATE_VALUE),
                    control_points |-> r.curve_points]]

\* the slider branch with the `sliders` feature: [err, kind]
slider_kind(parts, pos) ==
    slider_built(parts, parse_usize(parts[7]),
                 explicit_segments(split(parts[6], "|"), 0, 0, TRUE, pos, <<>>),
                 parse_float(parts[8]))

\* the slider branch without the `sliders` feature: [err, kind]
slider_kind_short(parts) ==
    LET span_count == parse_usize(parts[7])
        plen       == parse_float(parts[8])
    IN  IF Len(parts) < 7 THEN [err |-> "MissingField(repeats)"]
        ELSE IF ~span_count.ok THEN [err |-> "ParseInt"]
        ELSE IF Len(parts) < 8 THEN [err |-> "MissingField(pixel len)"]
        ELSE IF ~plen.ok THEN [err |-> "ParseFloat"]
        ELSE [err |-> "",
              kind |-> [tag |-> "Slider", span_count |-> span_count.v,
                        pixel_len |-> plen.f]]

spinner_kind(parts) ==
    LET e == parse_float(parts[6])
    IN  IF Len(parts) < 6 THEN [err |-> "MissingField(spinner endtime)"]
        ELSE IF ~e.ok THEN [err |-> "ParseFloat"]
        ELSE [err |-> "", kind |-> [tag |-> "Spinner", end_time |-> e.f]]

hold_kind(parts, time) ==
    LET e == parse_float(split(parts[6], ":")[1])
    IN  IF Len(parts) < 6
        THEN [err |-> "", kind |-> [tag |-> "Hold", end_time |-> Fin(time)]]
        ELSE IF ~e.ok THEN [err |-> "ParseFloat"]
        ELSE [err |-> "", kind |-> [tag |-> "Hold", end_time |-> FMax(Fin(time), e.f)]]

\* an if/else chain that tests the hold flag before the spinner flag
hitobject_which_hold_first(kind) ==
    CASE has_flag(kind, CIRCLE_FLAG) -> "circle"
      [] has_flag(kind, SLIDER_FLAG) -> "slider"
      [] has_flag(kind, HOLD_FLAG) -> "hold"
      [] has_flag(kind, SPINNER_FLAG) -> "spinner"
      [] OTHER -> "unknown"

\* the kind of the object by the flag of its type, as the if/else chain tests
hitobject_which(kind) ==
    CASE has_flag(kind, CIRCLE_FLAG) -> "circle"
      [] has_flag(kind, SLIDER_FLAG) -> "slider"
      [] has_flag(kind, SPINNER_FLAG) -> "spinner"
      [] has_flag(kind, HOLD_FLAG) -> "hold"
      [] OTHER -> "unknown"

\* the branch of the if/else chain: [err, kind]
hitobject_kind(which, parts, pos, time, ft) ==
    CASE which = "circle" -> [err |-> "", kind |-> [tag |-> "Circle"]]
      [] which = "slider" ->
           IF "sliders" \in ft THEN slider_kind(parts, pos)
           ELSE slider_kind_short(parts)
      [] which = "spinner" -> spinner_kind(parts)
      [] which = "hold" -> hold_kind(parts, time)
      [] OTHER -> [err |-> "UnknownHitObjectKind"]

\* a push that counts no hold note
hitobject_push_hold_uncounted(pos, time, sound, which, k, m, lc) ==
    LET m1 == [m EXCEPT
                  !.n_circles = IF which = "circle" THEN @ + 1 ELSE @,
                  !.n_sliders = IF which = "slider" THEN @ + 1 ELSE @,
                  !.n_spinners = IF which = "spinner" THEN @ + 1 ELSE @]
    IN  IF k.err # "" THEN Err(k.err, m1, lc)
        ELSE Ok([m1 EXCEPT !.hit_objects =
                     Append(@, [pos |-> pos, start_time |-> time,
                                kind |-> k.kind, sound |-> sound])],
                [lc EXCEPT !.prev_time = time])

\* the counters, the `?` on the branch taken and hit_objects.push
hitobject_push(pos, time, sound, which, k, m, lc) ==
    LET m1 == [m EXCEPT
                  !.n_circles = IF which = "circle" THEN @ + 1 ELSE @,
                  !.n_sliders = IF which \in {"slider", "hold"} THEN @ + 1 ELSE @,
                  !.n_spinners = IF which = "spinner" THEN @ + 1 ELSE @]
    IN  IF k.err # "" THEN Err(k.err, m1, lc)
        ELSE Ok([m1 EXCEPT !.hit_objects =
                     Append(@, [pos |-> pos, start_time |-> time,
                                kind |-> k.kind, sound |-> sound])],
                [lc EXCEPT !.prev_time = time])

\* one line of parse_hitobjects_body, from its parsed fields
hitobject_parsed(parts, x, y, t, kind, sound, m, lc, ft) ==
    LET time == t.f.v
        lc1  == [lc EXCEPT !.unsorted = @ \/ (m.hit_objects # <<>> /\ time < lc.prev_time)]
    IN  IF ~x.ok THEN Err("ParseFloat", m, lc)
        ELSE IF Len(parts) < 2 THEN Err("MissingField(y pos)", m, lc)
        ELSE IF ~y.ok THEN Err("ParseFloat", m, lc)
        ELSE IF Len(parts) < 3 THEN Err("MissingField(hitobject time)", m, lc)
        ELSE IF ~t.ok THEN Err("ParseFloat", m, lc)
        ELSE IF ~validate(t.f) THEN Err("InvalidDecimalNumber", m, lc)
        ELSE IF Len(parts) < 4 THEN Err("MissingField(hitobject kind)", m, lc1)
        ELSE IF ~kind.ok \/ ~sound.ok THEN Err("ParseInt", m, lc1)
        ELSE hitobject_push(<<x.f, y.f>>, time, sound.v, hitobject_which(kind.v),
                            hitobject_kind(hitobject_which(kind.v), parts,
                                           <<x.f, y.f>>, time, ft),
                            m, lc1)

\* one line of parse_hitobjects_body
hitobjects_line(l, m, lc, ft) ==
    LET parts == split(l, ",")
    IN  hitobject_parsed(parts, parse_float(parts[1]), parse_float(parts[2]),
                         parse_float(trim(parts[3])), parse_uint(parts[4], U8Max),
                         IF Len(parts) >= 5 THEN parse_uint(parts[5], U8Max)
                         ELSE [ok |-> TRUE, v |-> 0],
                         m, lc, ft)

\* sort::legacy_sort, applied to the list the stable sort by time leaves: it
\* keeps the time order and, among equal times, the order of the list
legacy_sort(s) == sort_by(s)

\* an end of the section that does not look at the mode
hitobjects_end_mode_blind(m, lc, ft) ==
    IF lc.unsorted
    THEN {Ok([m EXCEPT !.hit_objects = r], lc) : r \in sort_unstable(m.hit_objects)}
    ELSE {Ok(m, lc)}

\* the code after the loop of parse_hitobjects_body
hitobjects_end(m, lc, ft) ==
    IF m.mode = "MNA"
    THEN {Ok([m EXCEPT !.hit_objects = legacy_sort(sort_by(@))], lc)}
    ELSE IF lc.unsorted
    THEN {Ok([m EXCEPT !.hit_objects = r], lc) : r \in sort_unstable(m.hit_objects)}
    ELSE {Ok(m, lc)}

(***************************************************************************)
(* BeatmapAttributes (attributes.rs).  An f64 of the attributes is an      *)
(* exact fraction [n, d] in lowest terms with d > 0; the values are        *)
(* finite.                                                                 *)
(***************************************************************************)
Abs(n) == IF n < 0 THEN 0 - n ELSE n

RECURSIVE Gcd(_, _)
Gcd(a, b) == IF b = 0 THEN a ELSE Gcd(b, a % b)

\* the fraction n / d, d # 0
Rat(n, d) ==
    LET g == Gcd(Abs(n), Abs(d))
    IN  [n |-> (IF d < 0 THEN 0 - n ELSE n) \div g, d |-> Abs(d) \div g]

RMul(a, b) == Rat(a.n * b.n, a.d * b.d)

RDiv(a, b) == Rat(a.n * b.d, a.d * b.n)

RAdd(a, b) == Rat(a.n * b.d + b.n * a.d, a.d * b.d)

RSub(a, b) == Rat(a.n * b.d - b.n * a.d, a.d * b.d)

RLe(a, b) == a.n * b.d <= b.n * a.d

RLt(a, b) == a.n * b.d < b.n * a.d

\* f64::min and f64::max
RMin(a, b) == IF RLe(a, b) THEN a ELSE b

RMax(a, b) == IF RLe(a, b) THEN b ELSE a

\* `as f64` of an f32 of the Beatmap
F64(f) == Rat(f.v, 10)

AR0_MS == Rat(1800, 1)

AR5_MS == Rat(1200, 1)

AR10_MS == Rat(450, 1)

AR_MS_STEP_1 == RDiv(RSub(AR0_MS, AR5_MS), Rat(5, 1))

AR_MS_STEP_2 == RDiv(RSub(AR5_MS, AR10_MS), Rat(5, 1))

BeatmapAttributes_new(ar, od, cs, hp) ==
    [ar |-> F64(ar), od |-> F64(od), cs |-> F64(cs), hp |-> F64(hp),
     clock_rate |-> Rat(1, 1)]

\* Beatmap::attributes
attributes(m) == BeatmapAttributes_new(m.ar, m.od, m.cs, m.hp)

\* ar_ms of ar, before the clamp
ar_to_ms(ar) ==
    IF RLe(ar, Rat(5, 1))
    THEN RSub(AR0_MS, RMul(AR_MS_STEP_1, ar))
    ELSE RSub(AR5_MS, RMul(AR_MS_STEP_2, RSub(ar, Rat(5, 1))))

\* an inverse that uses the first piece for every ar_ms
ms_to_ar_one_piece(ar_ms) == RDiv(RSub(AR0_MS, ar_ms), AR_MS_STEP_1)

\* ar of ar_ms
ms_to_ar(ar_ms) ==
    IF RLt(AR5_MS, ar_ms)
    THEN RDiv(RSub(AR0_MS, ar_ms), AR_MS_STEP_1)
    ELSE RAdd(Rat(5, 1), RDiv(RSub(AR5_MS, ar_ms), AR_MS_STEP_2))

\* an adjustment that multiplies the hit window by the clock rate
adjusted_ar_stretched(ar, clock_rate) ==
    ms_to_ar(RMul(RMin(RMax(ar_to_ms(ar), AR10_MS), AR0_MS), clock_rate))

\* the adjusted ar: ar is self.ar * multiplier
adjusted_ar(ar, clock_rate) ==
    ms_to_ar(RDiv(RMin(RMax(ar_to_ms(ar), AR10_MS), AR0_MS), clock_rate))

\* the adjusted cs
adjusted_cs(cs, m) ==
    RMin(IF m.hr THEN RMul(cs, Rat(13, 10))
         ELSE IF m.ez THEN RMul(cs, Rat(1, 2))
         ELSE cs,
         Rat(10, 1))

\* a mods that adjusts whether the mods change the map or not
BeatmapAttributes_mods_always(self, m) ==
    [ar |-> adjusted_ar(RMul(self.ar, m.od_ar_hp_multiplier), m.speed),
     od |-> RMin(RMul(self.od, m.od_ar_hp_multiplier), Rat(10, 1)),
     cs |-> adjusted_cs(self.cs, m),
     hp |-> RMin(RMul(self.hp, m.od_ar_hp_multiplier), Rat(10, 1)),
     clock_rate |-> m.speed]

\* BeatmapAttributes::mods; m holds what the methods of the Mods value return
BeatmapAttributes_mods(self, m) ==
    IF ~m.change_map THEN self
    ELSE [ar |-> adjusted_ar(RMul(self.ar, m.od_ar_hp_multiplier), m.speed),
          od |-> RMin(RMul(self.od, m.od_ar_hp_multiplier), Rat(10, 1)),
          cs |-> adjusted_cs(self.cs, m),
          hp |-> RMin(RMul(self.hp, m.od_ar_hp_multiplier), Rat(10, 1)),
          clock_rate |-> m.speed]

(***************************************************************************)
(* The parse: one action per line read, by the place of the read_line      *)
(* call.  V is the set of raw lines the stream may hold.                   *)
(***************************************************************************)
MaxObjects == 3

MaxPoints == 3

\* what the next read_line may leave in buf
Inputs(V) == IF nread < MaxLines THEN V \cup {EOF} ELSE {EOF}

\* the records of a section stay within the bounds of the model
WithinBounds ==
    /\ section = "HitObjects" => Len(map.hit_objects) < MaxObjects
    /\ section = "TimingPoints" =>
           Len(map.timing_points) + Len(map.difficulty_points) < MaxPoints

\* the keys of [Difficulty]
DifficultyKeys ==
    {<<"A", "p", "p", "r", "o", "a", "c", "h", "R", "a", "t", "e">>,
     <<"O", "v", "e", "r", "a", "l", "l", "D", "i", "f", "f", "i", "c", "u", "l", "t", "y">>,
     <<"C", "i", "r", "c", "l", "e", "S", "i", "z", "e">>,
     <<"H", "P", "D", "r", "a", "i", "n", "R", "a", "t", "e">>,
     <<"S", "l", "i", "d", "e", "r", "T", "i", "c", "k", "R", "a", "t", "e">>,
     <<"S", "l", "i", "d", "e", "r", "M", "u", "l", "t", "i", "p", "l", "i", "e", "r">>}

\* the keys the ghost `keys` records: those of [Difficulty] and StackLeniency
TrackedKeys ==
    DifficultyKeys \cup {<<"S", "t", "a", "c", "k", "L", "e", "n", "i", "e", "n", "c", "y">>}

\* The bookkeeping of a read.  r is buf, l the prepared line, d what became of
\* it and `by` the parser that read it.  buf and line are kept for the next
\* state only when the specification observes them (obs); otherwise the state
\* holds buf as buf.clear() leaves it.
Read(r, l, d, by, obs) ==
    /\ raw' = IF obs THEN r ELSE <<>>
    /\ line' = IF obs THEN l ELSE <<>>
    /\ disp' = [what |-> d, by |-> by]
    /\ keys' = IF d \in {"field", "ignored"}
               THEN keys \cup ({split(l, ":")[1]} \cap TrackedKeys) ELSE keys
    /\ nread' = IF r = EOF THEN nread ELSE nread + 1
    /\ eof' = (r = EOF)
    /\ feat' = feat
    /\ UNCHANGED <<attrs, mods>>

\* the section parser went on to its next line, or returned Ok(false)
Continue(sec, o) ==
    /\ pc' = "body"
    /\ section' = sec
    /\ loc' = o.loc
    /\ map' = o.map
    /\ result' = "none"

\* parse returned: Ok(map) after a section parser returned Ok(true), or the error
Return(o) ==
    /\ pc' = "done"
    /\ section' = section
    /\ loc' = o.loc
    /\ map' = o.map
    /\ result' = IF o.err = "" THEN "ok" ELSE o.err

\* the first loop of parse_body and the version line
HeaderStep(V, obs) ==
    /\ pc = "header"
    /\ \E buf \in Inputs(V) :
          LET idx     == header_index(buf)
              version == parse_uint(
                             trim_end(Slice(buf, idx + Len(OSU_FILE_HEADER), Len(buf))),
                             U8Max)
          IN  IF buf # EOF /\ trim_matches_ws_bom(buf) = <<>>
              THEN Read(buf, <<>>, "blank", "header", obs) /\ UNCHANGED <<pc, section, loc, map, result>>
              ELSE IF idx = 0
              THEN Read(buf, <<>>, "header", "header", obs) /\ Return(Err("IncorrectFileHeader", map, loc))
              ELSE IF ~version.ok
              THEN Read(buf, <<>>, "header", "header", obs) /\ Return(Err("ParseInt", map, loc))
              ELSE /\ Read(buf, <<>>, "header", "header", obs)
                   /\ Continue("None", Ok([map EXCEPT !.version = version.v], loc))

\* Section::None of the loop of parse_body
NoneStep(V, obs) ==
    /\ pc = "body"
    /\ section = "None"
    /\ \E buf \in Inputs(V) :
          LET p == line_prepare(buf)
          IN  IF buf = EOF
              THEN Read(buf, <<>>, "eof", "None", obs) /\ Return(Ok(map, loc))
              ELSE IF p.skip
              THEN Read(buf, p.line, "skipped", "None", obs) /\ UNCHANGED <<pc, section, loc, map, result>>
              ELSE IF is_section_header(p.line)
              THEN /\ Read(buf, p.line, "section", "None", obs)
                   /\ Continue(header_section(p.line), Ok(map, LocalsInit))
              ELSE Read(buf, p.line, "ignored", "None", obs) /\ Continue(section, Ok(map, loc))

\* the `?` on what the body of the loop made of a line
FieldDone(f) == IF f.err # "" THEN Return(f) ELSE Continue(section, f)

\* the body of the loop of the parser that `match section` selects
section_line(sec, l, m, lc, ft) ==
    CASE sec = "General" -> general_line(l, m, lc, ft)
      [] sec = "Difficulty" -> difficulty_line(l, m, lc, ft)
      [] sec = "TimingPoints" -> timingpoints_line(l, m, lc, ft)
      [] sec = "HitObjects" -> hitobjects_line(l, m, lc, ft)

\* the code after the loop of the parser that `match section` selects
section_end(sec, m, lc, ft) ==
    CASE sec = "General" -> general_end(m, lc, ft)
      [] sec = "Difficulty" -> difficulty_end(m, lc, ft)
      [] sec = "TimingPoints" -> timingpoints_end(m, lc, ft)
      [] sec = "HitObjects" -> hitobjects_end(m, lc, ft)

\* one turn of the `while read_line!(..)? != 0` loop of a section parser, with
\* the code after the loop when the loop ends
SectionStep(V, obs, sec) ==
    /\ pc = "body"
    /\ section = sec
    /\ \E buf \in Inputs(V) :
          LET p == line_prepare(buf)
          IN  IF buf = EOF
              THEN \E o \in section_end(sec, map, loc, feat) :
                      Read(buf, <<>>, "eof", sec, obs) /\ Return(o)
              ELSE IF p.skip
              THEN Read(buf, p.line, "skipped", sec, obs) /\ UNCHANGED <<pc, section, loc, map, result>>
              ELSE IF is_section_header(p.line)
              THEN \E o \in section_end(sec, map, loc, feat) :
                      /\ Read(buf, p.line, "section", sec, obs)
                      /\ IF o.err # "" THEN Return(o)
                         ELSE Continue(header_section(p.line), Ok(o.map, LocalsInit))
              ELSE /\ WithinBounds
                   /\ Read(buf, p.line, "field", sec, obs)
                   /\ FieldDone(section_line(sec, p.line, map, loc, feat))

GeneralStep(V, obs) == SectionStep(V, obs, "General")

DifficultyStep(V, obs) == SectionStep(V, obs, "Difficulty")

TimingPointsStep(V, obs) == SectionStep(V, obs, "TimingPoints")

HitObjectsStep(V, obs) == SectionStep(V, obs, "HitObjects")

\* the `short` parse_timingpoints_body (without the `sliders` feature): the
\* first read and, after it, the loop that only looks for the next header
TimingPointsShortStep(V, obs) ==
    /\ pc = "body"
    /\ section = "TimingPoints"
    /\ \E buf \in Inputs(V) :
          LET t   == trim_end(buf)
              p   == line_prepare(buf)
          IN  IF buf = EOF
              THEN Read(buf, <<>>, "eof", "TimingPoints", obs) /\ Return(Ok(map, loc))
              ELSE IF p.skip
              THEN IF loc.first_line
                   THEN Read(buf, t, "skipped", "TimingPoints", obs) /\ Return(Ok(map, loc))
                   ELSE /\ Read(buf, p.line, "skipped", "TimingPoints", obs)
                        /\ UNCHANGED <<pc, section, loc, map, result>>
              ELSE IF is_section_header(p.line)
              THEN /\ Read(buf, p.line, "section", "TimingPoints", obs)
                   /\ Continue(header_section(p.line), Ok(map, LocalsInit))
              ELSE IF loc.first_line
              THEN /\ Read(buf, p.line, "field", "TimingPoints", obs)
                   /\ FieldDone(timingpoints_short_first(p.line, map, loc, feat))
              ELSE Read(buf, p.line, "ignored", "TimingPoints", obs) /\ Continue(section, Ok(map, loc))

InitWith(ft) ==
    /\ feat = ft
    /\ pc = "header"
    /\ section = "None"
    /\ loc = LocalsInit
    /\ map = BeatmapDefault
    /\ nread = 0
    /\ eof = FALSE
    /\ raw = <<>>
    /\ line = <<>>
    /\ disp = [what |-> "start", by |-> "header"]
    /\ keys = {}
    /\ result = "none"
    /\ attrs = <<>>
    /\ mods = <<>>

\* the parse of a build with the `sliders` feature
Parse(V, obs) ==
    \/ HeaderStep(V, obs)
    \/ NoneStep(V, obs)
    \/ GeneralStep(V, obs)
    \/ DifficultyStep(V, obs)
    \/ TimingPointsStep(V, obs)
    \/ HitObjectsStep(V, obs)

\* the parse of a build without the `sliders` feature
ParseShort(V, obs) ==
    \/ HeaderStep(V, obs)
    \/ NoneStep(V, obs)
    \/ GeneralStep(V, obs)
    \/ DifficultyStep(V, obs)
    \/ TimingPointsShortStep(V, obs)
    \/ HitObjectsStep(V, obs)

(***************************************************************************)
(* The raw lines of the streams, and the specifications.                   *)
(***************************************************************************)
\* the version line and the four section headers
LinesCommon ==
    {<<"o", "s", "u", " ", "f", "i", "l", "e", " ", "f", "o", "r", "m", "a", "t", " ", "v", "1", "4", "\n">>,
     <<"[", "G", "e", "n", "e", "r", "a", "l", "]", "\n">>,
     <<"[", "D", "i", "f", "f", "i", "c", "u", "l", "t", "y", "]", "\n">>,
     <<"[", "T", "i", "m", "i", "n", "g", "P", "o", "i", "n", "t", "s", "]", "\n">>,
     <<"[", "H", "i", "t", "O", "b", "j", "e", "c", "t", "s", "]", "\n">>}

\* blank, skipped, commented and unknown lines
LinesSections ==
    {<<"BOM", "o", "s", "u", " ", "f", "i", "l", "e", " ", "f", "o", "r", "m", "a", "t", " ", "v", "1", "4", "\n">>,
     <<"BOM", "\n">>,
     <<"\n">>,
     <<"/", "/", "c", "\n">>,
     <<" ", "x", "\n">>,
     <<"_", "x", "\n">>,
     <<"[", "E", "v", "e", "n", "t", "s", "]", "\n">>,
     <<"[", "H", "i", "t", "O", "b", "j", "e", "c", "t", "s", "]", "/", "/", "c", "\n">>,
     <<"[", "G", "e", "n", "e", "r", "a", "l", "]", " ", "\t", "\n">>,
     <<"M", "o", "d", "e", ":", "1", " ", "/", "/", "c", "\n">>,
     <<"x", "\n">>,
     <<"M", "o", "d", "e", ":", "0">>}

\* [General] lines
LinesGeneral ==
    {<<"M", "o", "d", "e", ":", "0", "\n">>,
     <<"M", "o", "d", "e", ":", "1", "\n">>,
     <<"M", "o", "d", "e", ":", "2", "\n">>,
     <<"M", "o", "d", "e", ":", " ", "3", "\n">>,
     <<"M", "o", "d", "e", ":", "4", "\n">>,
     <<"M", "o", "d", "e", ":", "0", "3", "\n">>,
     <<"M", "o", "d", "e", "\n">>,
     <<"S", "t", "a", "c", "k", "L", "e", "n", "i", "e", "n", "c", "y", ":", "0", ".", "5", "\n">>}

\* [Difficulty] lines
LinesDifficulty ==
    {<<"A", "p", "p", "r", "o", "a", "c", "h", "R", "a", "t", "e", ":", "9", "\n">>,
     <<"O", "v", "e", "r", "a", "l", "l", "D", "i", "f", "f", "i", "c", "u", "l", "t", "y", ":", "8", "\n">>,
     <<"O", "v", "e", "r", "a", "l", "l", "D", "i", "f", "f", "i", "c", "u", "l", "t", "y", ":", "6", "\n">>,
     <<"C", "i", "r", "c", "l", "e", "S", "i", "z", "e", ":", "4", "\n">>,
     <<"H", "P", "D", "r", "a", "i", "n", "R", "a", "t", "e", ":", "5", "\n">>,
     <<"S", "l", "i", "d", "e", "r", "M", "u", "l", "t", "i", "p", "l", "i", "e", "r", ":", "1", ".", "4", "\n">>,
     <<"S", "l", "i", "d", "e", "r", "T", "i", "c", "k", "R", "a", "t", "e", ":", "1", "\n">>}

\* [TimingPoints] lines: time,beat_len
LinesTiming ==
    {<<"1", "0", ",", "5", "0", "0", "\n">>,
     <<"5", ",", "5", "0", "0", "\n">>,
     <<"-", "5", ",", "5", "0", "0", "\n">>,
     <<"5", ",", "-", "5", "0", "\n">>,
     <<"1", "0", ",", "-", "5", "0", "\n">>,
     <<"5", ",", "x", "\n">>}

\* [TimingPoints] lines whose beat length lies at and beyond the ends of the
\* range of the speed multiplier
LinesClamp ==
    {<<"5", ",", "5", "0", "0", "\n">>,
     <<"1", "0", ",", "-", "5", "0", "\n">>,
     <<"5", ",", "-", "5", "\n">>,
     <<"5", ",", "-", "2", "0", "0", "0", "\n">>,
     <<"5", ",", "0", "\n">>}

\* [HitObjects] lines: x,y,time,type,sound,...
LinesHit ==
    {<<"M", "o", "d", "e", ":", " ", "3", "\n">>,
     <<"0", ",", "0", ",", "1", "0", ",", "1", "\n">>,
     <<"0", ",", "0", ",", "5", ",", "1", "\n">>,
     <<"0", ",", "0", ",", "-", "5", ",", "1", "\n">>,
     <<"0", ",", "0", ",", "5", ",", "8", ",", "0", ",", "2", "0", "\n">>,
     <<"0", ",", "0", ",", "5", ",", "1", "2", "8", ",", "0", ",", "2", "0", ":", "0", "\n">>,
     <<"0", ",", "0", ",", "5", ",", "4", "\n">>,
     <<"0", ",", "0", ",", "5", ",", "2", ",", "0", ",", "B", "|", "1", ":", "1", "|", "2", ":", "2", ",", "2", ",", "1", "0", "0", "\n">>,
     <<"0", ",", "0", ",", "5", ",", "2", ",", "0", ",", "B", "|", "1", ":", "1", "|", "L", ",", "1", ",", "1", "0", "0", "\n">>,
     <<"0", ",", "0", ",", "5", ",", "2", ",", "0", ",", "B", "|", "1", ":", "1", "|", ",", "1", ",", "1", "0", "0", "\n">>}

\* lines for the build without the `sliders` feature
LinesShort ==
    {<<"\n">>,
     <<"/", "/", "c", "\n">>,
     <<"1", "0", ",", "5", "0", "0", "\n">>,
     <<"M", "o", "d", "e", ":", "1", "\n">>,
     <<"M", "o", "d", "e", ":", " ", "3", "\n">>,
     <<"0", ",", "0", ",", "5", ",", "1", "\n">>,
     <<"0", ",", "0", ",", "5", ",", "2", ",", "0", ",", "B", "|", "1", ":", "1", ",", "2", ",", "1", "0", "0", "\n">>}

Init == InitWith(AllFeatures)

Next == Parse(LinesCommon \cup LinesSections, TRUE)

Spec == Init /\ [][Next]_vars

NextGeneral == Parse(LinesCommon \cup LinesGeneral, TRUE)

SpecGeneral == Init /\ [][NextGeneral]_vars

NextDifficulty == Parse(LinesCommon \cup LinesDifficulty, TRUE)

SpecDifficulty == Init /\ [][NextDifficulty]_vars

NextTiming == Parse(LinesCommon \cup LinesTiming, TRUE)

SpecTiming == Init /\ [][NextTiming]_vars

NextClamp == Parse(LinesCommon \cup LinesClamp, TRUE)

SpecClamp == Init /\ [][NextClamp]_vars

\* the decimal text of a u8
u8_digits(k) ==
    LET d(n) == <<"0", "1", "2", "3", "4", "5", "6", "7", "8", "9">>[n + 1]
    IN  IF k < 10 THEN <<d(k)>>
        ELSE IF k < 100 THEN <<d(k \div 10), d(k % 10)>>
        ELSE <<d(k \div 100), d((k \div 10) % 10), d(k % 10)>>

\* one [HitObjects] line for every type value: x 0, y 0, time 5, the type, sound
\* 0, then `7,1,100`, which serves as control points, repeats and pixel length
\* of a slider and as end time of a spinner or a hold note
LinesKinds ==
    {<<"0", ",", "0", ",", "5", ",">> \o u8_digits(k)
        \o <<",", "0", ",", "7", ",", "1", ",", "1", "0", "0", "\n">> : k \in 0..U8Max}

\* the parse after four blank lines beyond the bound on the lines still to come
\* less two, the version line and the line [HitObjects]: two lines are left
InitKinds ==
    /\ feat = AllFeatures
    /\ pc = "body"
    /\ section = "HitObjects"
    /\ loc = LocalsInit
    /\ map = [BeatmapDefault EXCEPT !.version = 14]
    /\ nread = MaxLines - 2
    /\ eof = FALSE
    /\ raw = <<"[", "H", "i", "t", "O", "b", "j", "e", "c", "t", "s", "]", "\n">>
    /\ line = <<"[", "H", "i", "t", "O", "b", "j", "e", "c", "t", "s", "]">>
    /\ disp = [what |-> "section", by |-> "None"]
    /\ keys = {}
    /\ result = "none"
    /\ attrs = <<>>
    /\ mods = <<>>

NextKinds == HitObjectsStep(LinesKinds, TRUE)

SpecKinds == InitKinds /\ [][NextKinds]_vars

\* lines whose numbers decode to NaN or to an infinity: the beat length and the
\* time of a timing point, the x, the time and the spinner end time of a hit
\* object
LinesFloats ==
    {<<"5", ",", "N", "a", "N", "\n">>,
     <<"5", ",", "i", "n", "f", "\n">>,
     <<"i", "n", "f", ",", "5", "0", "0", "\n">>,
     <<"i", "n", "f", ",", "0", ",", "5", ",", "1", "\n">>,
     <<"0", ",", "0", ",", "N", "a", "N", ",", "1", "\n">>,
     <<"0", ",", "0", ",", "5", ",", "8", ",", "0", ",", "-", "i", "n", "f", "\n">>}

NextFloats == Parse(LinesCommon \cup LinesFloats, TRUE)

SpecFloats == Init /\ [][NextFloats]_vars

\* slider lines `0,0,5,2,0,<control points>,<repeats>,<pixel length>`: repeats at
\* and beyond 9000 with control points that convert and that do not, the
\* curve B|100:0|200:0|200:100, curves of type P with two, three and four
\* points in one segment and in two, and control-point fields without points
LinesSlider ==
    {<<"0", ",", "0", ",", "5", ",", "2", ",", "0", ",", "B", "|", "1", ":", "1", ",", "9", "0", "0", "1", ",", "1", "0", "0", "\n">>,
     <<"0", ",", "0", ",", "5", ",", "2", ",", "0", ",", "B", "|", "x", ",", "9", "0", "0", "1", ",", "1", "0", "0", "\n">>,
     <<"0", ",", "0", ",", "5", ",", "2", ",", "0", ",", "B", "|", "x", ",", "9", "0", "0", "0", ",", "1", "0", "0", "\n">>,
     <<"0", ",", "0", ",", "5", ",", "2", ",", "0", ",", "B", "|", "1", ":", "1", ",", "9", "0", "0", "0", ",", "1", "0", "0", "\n">>,
     <<"0", ",", "0", ",", "5", ",", "2", ",", "0", ",", "B", "|", "1", ":", "1", ",", "0", ",", "1", "0", "0", "\n">>,
     <<"0", ",", "0", ",", "5", ",", "2", ",", "0", ",", "B", "|", "1", "0", "0", ":", "0", "|", "2", "0", "0", ":", "0", "|", "2", "0", "0", ":", "1", "0", "0", ",", "2", ",", "1", "0", "0", "\n">>,
     <<"0", ",", "0", ",", "5", ",", "2", ",", "0", ",", "P", "|", "1", ":", "1", "|", "2", ":", "2", ",", "1", ",", "1", "0", "0", "\n">>,
     <<"0", ",", "0", ",", "5", ",", "2", ",", "0", ",", "P", "|", "1", ":", "0", "|", "1", ":", "1", ",", "1", ",", "1", "0", "0", "\n">>,
     <<"0", ",", "0", ",", "5", ",", "2", ",", "0", ",", "P", "|", "1", ":", "1", ",", "1", ",", "1", "0", "0", "\n">>,
     <<"0", ",", "0", ",", "5", ",", "2", ",", "0", ",", "P", "|", "1", ":", "1", "|", "2", ":", "2", "|", "3", ":", "5", ",", "1", ",", "1", "0", "0", "\n">>,
     <<"0", ",", "0", ",", "5", ",", "2", ",", "0", ",", "P", "|", "1", ":", "1", "|", "B", "|", "2", ":", "2", "|", "3", ":", "5", ",", "1", ",", "1", "0", "0", "\n">>,
     <<"0", ",", "0", ",", "5", ",", "2", ",", "0", ",", "B", ",", "1", "\n">>,
     <<"0", ",", "0", ",", "5", ",", "2", ",", "0", ",", "B", ",", "1", ",", "1", "0", "0", "\n">>,
     <<"0", ",", "0", ",", "5", ",", "2", ",", "0", ",", ",", "1", ",", "1", "0", "0", "\n">>}

NextSlider == HitObjectsStep(LinesSlider, TRUE)

\* the parse from the line [HitObjects] on, two lines left
SpecSlider == InitKinds /\ [][NextSlider]_vars

\* [HitObjects] lines of a mania map: circles at the times 10 and 5, a second
\* circle at the time 5 in another column, and a hold note at the time 5
LinesMania ==
    {<<"0", ",", "0", ",", "1", "0", ",", "1", "\n">>,
     <<"0", ",", "0", ",", "5", ",", "1", "\n">>,
     <<"6", "4", ",", "0", ",", "5", ",", "1", "\n">>,
     <<"0", ",", "0", ",", "5", ",", "1", "2", "8", ",", "0", ",", "2", "0", ":", "0", "\n">>}

\* the parse after the version line, [General], `Mode: 3` as often as the bound
\* on the lines allows with three lines left, and the line [HitObjects]
InitMania ==
    /\ feat = AllFeatures
    /\ pc = "body"
    /\ section = "HitObjects"
    /\ loc = LocalsInit
    /\ map = [BeatmapDefault EXCEPT !.version = 14, !.mode = "MNA",
                                     !.stack_leniency = Fin(7)]
    /\ nread = MaxLines - 3
    /\ eof = FALSE
    /\ raw = <<"[", "H", "i", "t", "O", "b", "j", "e", "c", "t", "s", "]", "\n">>
    /\ line = <<"[", "H", "i", "t", "O", "b", "j", "e", "c", "t", "s", "]">>
    /\ disp = [what |-> "section", by |-> "General"]
    /\ keys = {}
    /\ result = "none"
    /\ attrs = <<>>
    /\ mods = <<>>

NextMania == HitObjectsStep(LinesMania, TRUE)

SpecMania == InitMania /\ [][NextMania]_vars

\* what the methods of a Mods value may return: speed 0.75, 1 or 1.5, the
\* multiplier 0.5, 1 or 1.4
ModsValues ==
    [change_map : BOOLEAN,
     speed : {Rat(3, 4), Rat(1, 1), Rat(3, 2)},
     od_ar_hp_multiplier : {Rat(1, 2), Rat(1, 1), Rat(7, 5)},
     hr : BOOLEAN,
     ez : BOOLEAN]

\* the difficulty values of the maps, in tenths: ar from -1.0 to 11.0 in steps of
\* 0.5
BaseAR == {Fin(5 * k) : k \in (0 - 2)..22}

BaseOD == {Fin(0), Fin(80), Fin(100)}

BaseCS == {Fin(40), Fin(90)}

BaseHP == {Fin(50)}

\* map.attributes()
AttributesStep ==
    /\ pc = "done"
    /\ result = "ok"
    /\ attrs = <<>>
    /\ attrs' = <<attributes(map)>>
    /\ UNCHANGED <<feat, pc, section, loc, map, nread, eof, raw, line, disp, keys,
                   result, mods>>

\* .mods(m) on the attributes taken
ModsStep ==
    /\ attrs # <<>>
    /\ mods = <<>>
    /\ \E m \in ModsValues :
          /\ mods' = <<m>>
          /\ attrs' = <<BeatmapAttributes_mods(attrs[1], m)>>
    /\ UNCHANGED <<feat, pc, section, loc, map, nread, eof, raw, line, disp, keys,
                   result>>

\* the return of the parse of a stream that holds the version line and a
\* [Difficulty] section with its six keys
InitAttributes ==
    /\ feat = AllFeatures
    /\ pc = "done"
    /\ section = "Difficulty"
    /\ \E a \in BaseAR, o \in BaseOD, c \in BaseCS, h \in BaseHP :
          /\ loc = [LocalsInit EXCEPT !.ar = <<a>>, !.od = <<o>>, !.cs = <<c>>,
                                      !.hp = <<h>>, !.sv = <<Fin(14)>>,
                                      !.tick_rate = <<Fin(10)>>]
          /\ map = [BeatmapDefault EXCEPT !.version = 14, !.ar = a, !.od = o,
                                          !.cs = c, !.hp = h,
                                          !.slider_mult = Fin(14),
                                          !.tick_rate = Fin(10)]
    /\ nread = MaxLines
    /\ eof = TRUE
    /\ raw = <<>>
    /\ line = <<>>
    /\ disp = [what |-> "eof", by |-> "Difficulty"]
    /\ keys = DifficultyKeys
    /\ result = "ok"
    /\ attrs = <<>>
    /\ mods = <<>>

NextAttributes == AttributesStep \/ ModsStep

SpecAttributes == InitAttributes /\ [][NextAttributes]_vars

\* streams whose [General] section comes after [HitObjects]: circles at the
\* times 10 and 5, a second circle at 5 in another column, and the lines
\* [General], `Mode: 3` and [HitObjects]
LinesLate ==
    {<<"0", ",", "0", ",", "1", "0", ",", "1", "\n">>,
     <<"0", ",", "0", ",", "5", ",", "1", "\n">>,
     <<"6", "4", ",", "0", ",", "5", ",", "1", "\n">>,
     <<"[", "G", "e", "n", "e", "r", "a", "l", "]", "\n">>,
     <<"M", "o", "d", "e", ":", " ", "3", "\n">>,
     <<"[", "H", "i", "t", "O", "b", "j", "e", "c", "t", "s", "]", "\n">>}

\* the parse after the version line, a blank line for every line of the bound
\* beyond eight, and the line [HitObjects]: five lines are left
InitLate ==
    /\ feat = AllFeatures
    /\ pc = "body"
    /\ section = "HitObjects"
    /\ loc = LocalsInit
    /\ map = [BeatmapDefault EXCEPT !.version = 14]
    /\ nread = MaxLines - 5
    /\ eof = FALSE
    /\ raw = <<"[", "H", "i", "t", "O", "b", "j", "e", "c", "t", "s", "]", "\n">>
    /\ line = <<"[", "H", "i", "t", "O", "b", "j", "e", "c", "t", "s", "]">>
    /\ disp = [what |-> "section", by |-> "None"]
    /\ keys = {}
    /\ result = "none"
    /\ attrs = <<>>
    /\ mods = <<>>

NextLate == GeneralStep(LinesLate, TRUE) \/ HitObjectsStep(LinesLate, TRUE)

SpecLate == InitLate /\ [][NextLate]_vars

\* [TimingPoints] lines: timing points at the times -5, 5 (twice, with the beat
\* lengths 500 and 0) and 10, and a difficulty point at -5
LinesOrder ==
    {<<"-", "5", ",", "5", "0", "0", "\n">>,
     <<"5", ",", "5", "0", "0", "\n">>,
     <<"5", ",", "0", "\n">>,
     <<"1", "0", ",", "5", "0", "0", "\n">>,
     <<"-", "5", ",", "-", "5", "0", "\n">>}

\* the parse after the version line, blank lines and the line [TimingPoints]:
\* three lines are left
InitOrder ==
    /\ feat = AllFeatures
    /\ pc = "body"
    /\ section = "TimingPoints"
    /\ loc = LocalsInit
    /\ map = [BeatmapDefault EXCEPT !.version = 14]
    /\ nread = MaxLines - 3
    /\ eof = FALSE
    /\ raw = <<"[", "T", "i", "m", "i", "n", "g", "P", "o", "i", "n", "t", "s", "]", "\n">>
    /\ line = <<"[", "T", "i", "m", "i", "n", "g", "P", "o", "i", "n", "t", "s", "]">>
    /\ disp = [what |-> "section", by |-> "None"]
    /\ keys = {}
    /\ result = "none"
    /\ attrs = <<>>
    /\ mods = <<>>

NextOrder == TimingPointsStep(LinesOrder, TRUE)

SpecOrder == InitOrder /\ [][NextOrder]_vars

\* slider lines with repeated points: the point string X|1:1|2:2|2:2|3:3 as the
\* only segment and as the second one, a repetition at the last point, an
\* anchor other than (0, 0), a first point that repeats the anchor, a point
\* given three times, and a first token that is a coordinate
LinesImplicit ==
    {<<"0", ",", "0", ",", "5", ",", "2", ",", "0", ",", "X", "|", "1", ":", "1", "|", "2", ":", "2", "|", "2", ":", "2", "|", "3", ":", "3", ",", "1", ",", "1", "0", "0", "\n">>,
     <<"0", ",", "0", ",", "5", ",", "2", ",", "0", ",", "B", "|", "5", ":", "5", "|", "X", "|", "1", ":", "1", "|", "2", ":", "2", "|", "2", ":", "2", "|", "3", ":", "3", ",", "1", ",", "1", "0", "0", "\n">>,
     <<"0", ",", "0", ",", "5", ",", "2", ",", "0", ",", "B", "|", "1", ":", "1", "|", "2", ":", "2", "|", "2", ":", "2", ",", "1", ",", "1", "0", "0", "\n">>,
     <<"1", "0", ",", "2", "0", ",", "5", ",", "2", ",", "0", ",", "B", "|", "1", "1", ":", "2", "1", "|", "1", "2", ":", "2", "2", ",", "1", ",", "1", "0", "0", "\n">>,
     <<"0", ",", "0", ",", "5", ",", "2", ",", "0", ",", "B", "|", "0", ":", "0", "|", "1", ":", "1", ",", "1", ",", "1", "0", "0", "\n">>,
     <<"0", ",", "0", ",", "5", ",", "2", ",", "0", ",", "B", "|", "2", ":", "2", "|", "2", ":", "2", "|", "2", ":", "2", "|", "3", ":", "3", ",", "1", ",", "1", "0", "0", "\n">>,
     <<"0", ",", "0", ",", "5", ",", "2", ",", "0", ",", "1", ":", "1", "|", "2", ":", "2", ",", "1", ",", "1", "0", "0", "\n">>}

NextImplicit == HitObjectsStep(LinesSlider \cup LinesImplicit, TRUE)

\* the parse from the line [HitObjects] on, two lines left
SpecImplicit == InitKinds /\ [][NextImplicit]_vars

\* the parse after the version line, [General], Mode lines of which the last is
\* `Mode: 3`, as many as the bound on the lines allows with three lines left,
\* and the line [General] once more
InitAgain ==
    /\ feat = AllFeatures
    /\ pc = "body"
    /\ section = "General"
    /\ loc = LocalsInit
    /\ map = [BeatmapDefault EXCEPT !.version = 14, !.mode = "MNA",
                                     !.stack_leniency = Fin(7)]
    /\ nread = MaxLines - 3
    /\ eof = FALSE
    /\ raw = <<"[", "G", "e", "n", "e", "r", "a", "l", "]", "\n">>
    /\ line = <<"[", "G", "e", "n", "e", "r", "a", "l", "]">>
    /\ disp = [what |-> "section", by |-> "General"]
    /\ keys = {}
    /\ result = "none"
    /\ attrs = <<>>
    /\ mods = <<>>

NextAgain ==
    \/ GeneralStep(LinesCommon \cup LinesGeneral, TRUE)
    \/ DifficultyStep(LinesCommon \cup LinesGeneral, TRUE)
    \/ TimingPointsStep(LinesCommon \cup LinesGeneral, TRUE)
    \/ HitObjectsStep(LinesCommon \cup LinesGeneral, TRUE)

SpecAgain == InitAgain /\ [][NextAgain]_vars

NextHit == Parse(LinesCommon \cup LinesHit, TRUE)

SpecHit == Init /\ [][NextHit]_vars

InitShort == InitWith({"taiko", "mania"})

NextShort == ParseShort(LinesCommon \cup LinesShort, TRUE)

SpecShort == InitShort /\ [][NextShort]_vars

(***************************************************************************)
(* Properties.                                                             *)
(***************************************************************************)
Done == pc = "done"

Succeeded == result = "ok"

\* C1: after a successful parse whose mode is not Mania, hit_objects is in
\* non-decreasing start_time order, whatever the sections of the input.
C1_HitObjectsSorted ==
    (Succeeded /\ map.mode # "MNA") => IsSorted(map.hit_objects)

\* C2: after a successful parse, timing_points and difficulty_points are each in
\* non-decreasing time order, whatever the sections of the input.
C2_PointsSorted ==
    Succeeded => /\ IsSorted(map.timing_points)
                 /\ IsSorted(map.difficulty_points)

\* C3: every parse ends by returning a Beatmap or a ParseError; no input makes
\* it end any other way (no out-of-bounds access).
C3_NoPanic == Done => result # "panic"

\* text s holds pat somewhere
Contains(s, pat) ==
    \E i \in 1..Len(s) : i + Len(pat) - 1 <= Len(s) /\ \A j \in 1..Len(pat) : s[i + j - 1] = pat[j]

\* every character of s is whitespace or the byte-order-mark
OnlyWhitespaceOrBom(s) == \A i \in 1..Len(s) : s[i] \in {" ", "\t", "\n", "\r", "BOM"}

\* C4: the first line that is not blank (whitespace and U+FEFF aside) must hold
\* `osu file format v`: without it, or with no such line in the stream, the parse
\* fails with IncorrectFileHeader and reads nothing more; blank lines before it
\* are passed over and a byte-order-mark before the header is no failure.
C4_FileHeader ==
    [][/\ pc # "done"
       /\ pc = "header" =>
            IF raw' # EOF /\ OnlyWhitespaceOrBom(raw')
            THEN pc' = "header" /\ result' = "none"
            ELSE IF ~Contains(raw', OSU_FILE_HEADER)
            THEN pc' = "done" /\ result' = "IncorrectFileHeader"
            ELSE result' # "IncorrectFileHeader"]_vars

\* a junk line after a blank line: the parse has failed for its header
C4_Witness ==
    /\ Done
    /\ result = "IncorrectFileHeader"
    /\ nread = 2
    /\ raw = <<"x", "\n">>

\* the section a header line names, by the identifier between its brackets
NamedSection(l) ==
    LET name == [i \in 1..(Len(l) - 2) |-> l[i + 1]]
    IN  IF name \in {<<"G", "e", "n", "e", "r", "a", "l">>,
                     <<"D", "i", "f", "f", "i", "c", "u", "l", "t", "y">>,
                     <<"T", "i", "m", "i", "n", "g", "P", "o", "i", "n", "t", "s">>,
                     <<"H", "i", "t", "O", "b", "j", "e", "c", "t", "s">>}
        THEN CASE name[1] = "G" -> "General"
               [] name[1] = "D" -> "Difficulty"
               [] name[1] = "T" -> "TimingPoints"
               [] name[1] = "H" -> "HitObjects"
        ELSE "None"

Bracketed(l) == l # <<>> /\ l[1] = "[" /\ l[Len(l)] = "]"

\* C5: the section is None at first; a line [Name] that is not skipped sets it
\* to the section of that exact name, to None for any other name; any other
\* line is handled by the parser of the section in force and leaves the section
\* alone; while the section is None a line changes nothing in the Beatmap and
\* raises no error.
C5_Sections ==
    [][/\ pc = "header" => section = "None" /\ section' = "None"
       /\ (pc = "body" /\ raw' # EOF /\ disp'.what # "skipped" /\ result' = "none") =>
            IF Bracketed(line')
            THEN section' = NamedSection(line')
            ELSE section' = section /\ disp'.by = section
       /\ (pc = "body" /\ section = "None") =>
            map' = map /\ result' \in {"none", "ok"}]_vars

\* a junk line read under an unknown header, after a known section
C5_Witness ==
    /\ section = "None"
    /\ disp = [what |-> "ignored", by |-> "None"]
    /\ line = <<"x">>
    /\ nread >= 4
    /\ map.mode = "TKO"

\* C6: a parse that succeeds has seen the end of the stream: the main loop
\* stops only after a read returned 0, in both variants of the timing-point
\* parser.
C6_EndsAtEof == Succeeded => eof

\* the raw line without its line terminator
Content(r) ==
    LET n == Len(r)
        k == IF n >= 2 /\ r[n] = "\n" /\ r[n - 1] = "\r" THEN n - 2
             ELSE IF n >= 1 /\ r[n] = "\n" THEN n - 1
             ELSE n
    IN  [i \in 1..k |-> r[i]]

\* the line is empty, or starts with "//", a space or an underscore
SkipForm(r) ==
    LET c == Content(r)
    IN  \/ c = <<>>
        \/ c[1] \in {" ", "_"}
        \/ Len(c) >= 2 /\ c[1] = "/" /\ c[2] = "/"

CommentAt(r, i) == i + 1 <= Len(r) /\ r[i] = "/" /\ r[i + 1] = "/"

\* l is r without its trailing whitespace and without what follows the first "//"
PreparedFrom(r, l) ==
    /\ Len(l) <= Len(r)
    /\ \A i \in 1..Len(l) : l[i] = r[i] /\ ~CommentAt(r, i)
    /\ \/ CommentAt(r, Len(l) + 1)
       \/ /\ \A i \in (Len(l) + 1)..Len(r) : r[i] \in {" ", "\t", "\n", "\r"}
          /\ l # <<>> => l[Len(l)] \notin {" ", "\t", "\n", "\r"}

\* C7: a line handed to the section-header test or to a field parser is the
\* raw line without trailing whitespace and without everything from the first
\* "//" on; a line that is empty or starts with "//", a space or an underscore
\* is handed to nothing and changes neither the section nor the Beatmap.
C7_LinePrepare ==
    [][(pc = "body" /\ raw' # EOF) =>
          /\ SkipForm(raw') =>
               /\ disp'.what = "skipped"
               /\ section' = section /\ map' = map /\ loc' = loc /\ result' = "none"
          /\ disp'.what \in {"section", "field", "ignored"} => PreparedFrom(raw', line')]_vars

\* a key/value line with a comment behind a space, handed to parse_general
C7_Witness ==
    /\ disp = [what |-> "field", by |-> "General"]
    /\ raw = <<"M", "o", "d", "e", ":", "1", " ", "/", "/", "c", "\n">>
    /\ line = <<"M", "o", "d", "e", ":", "1", " ">>
    /\ loc.mode = <<"TKO">>

\* the keys a [Difficulty] section must hold
MandatoryKeys ==
    {<<"O", "v", "e", "r", "a", "l", "l", "D", "i", "f", "f", "i", "c", "u", "l", "t", "y">>,
     <<"C", "i", "r", "c", "l", "e", "S", "i", "z", "e">>,
     <<"H", "P", "D", "r", "a", "i", "n", "R", "a", "t", "e">>,
     <<"S", "l", "i", "d", "e", "r", "T", "i", "c", "k", "R", "a", "t", "e">>,
     <<"S", "l", "i", "d", "e", "r", "M", "u", "l", "t", "i", "p", "l", "i", "e", "r">>}

\* C8: when one of OverallDifficulty, CircleSize, HPDrainRate, SliderMultiplier
\* and SliderTickRate is absent from the input, the parse fails (with
\* MissingField) and returns no Beatmap.
C8_MandatoryFields == (Done /\ ~(MandatoryKeys \subseteq keys)) => ~Succeeded

\* C9: a [Difficulty] section that holds the five mandatory keys ends without
\* error whether or not it holds ApproachRate; the Beatmap's od is the section's
\* OverallDifficulty, and its ar is the section's ApproachRate when there is one
\* and that od when there is none.
C9_ApproachRateDefault ==
    [][(section = "Difficulty" /\ disp'.what \in {"section", "eof"}
          /\ loc.od # <<>> /\ loc.cs # <<>> /\ loc.hp # <<>>
          /\ loc.sv # <<>> /\ loc.tick_rate # <<>>) =>
            /\ result' \in {"none", "ok"}
            /\ map'.od = loc.od[1]
            /\ map'.ar = IF loc.ar = <<>> THEN map'.od ELSE loc.ar[1]]_vars

\* a parse that ended in a [Difficulty] section without ApproachRate
C9_Witness ==
    /\ Succeeded
    /\ section = "Difficulty"
    /\ loc.ar = <<>>
    /\ map.od = Fin(80)
    /\ map.ar = Fin(80)

\* the key and the value of a key/value line: the text before the first colon,
\* and the text between the first colon and the next one (or the end), trimmed
KeyOf(l) == [i \in 1..(CHOOSE n \in 0..Len(l) :
                           /\ \A j \in 1..n : l[j] # ":"
                           /\ (n < Len(l) => l[n + 1] = ":")) |-> l[i]]

ValueOf(l) ==
    LET rest  == [i \in 1..(Len(l) - Len(KeyOf(l)) - 1) |-> l[Len(KeyOf(l)) + 1 + i]]
        inner == KeyOf(rest)
        ws    == {" ", "\t", "\n", "\r"}
        a     == CHOOSE n \in 0..Len(inner) :
                     /\ \A j \in 1..n : inner[j] \in ws
                     /\ (n < Len(inner) => inner[n + 1] \notin ws)
        b     == CHOOSE n \in a..Len(inner) :
                     /\ \A j \in (n + 1)..Len(inner) : inner[j] \in ws
                     /\ (n > a => inner[n] \notin ws)
    IN  [i \in 1..(b - a) |-> inner[a + i]]

\* C10: in [General], a Mode value of exactly 0, 1, 2 or 3 selects Standard,
\* Taiko, Catch or Mania (the mode the Beatmap gets when the section ends is
\* the last one selected); any other Mode value fails with InvalidMode.
C10_Mode ==
    [][/\ (section = "General" /\ disp'.what = "field"
             /\ Contains(line', <<":">>) /\ KeyOf(line') = <<"M", "o", "d", "e">>) =>
            LET v == ValueOf(line')
            IN  CASE v = <<"0">> -> result' = "none" /\ loc'.mode = <<"STD">>
                  [] v = <<"1">> -> result' = "none" /\ loc'.mode = <<"TKO">>
                  [] v = <<"2">> -> result' = "none" /\ loc'.mode = <<"CTB">>
                  [] v = <<"3">> -> result' = "none" /\ loc'.mode = <<"MNA">>
                  [] OTHER -> result' = "InvalidMode" /\ pc' = "done"
       /\ (section = "General" /\ disp'.what \in {"section", "eof"} /\ loc.mode # <<>>) =>
            map'.mode = loc.mode[1]]_vars

\* Mania selected by `Mode: 3` and in the Beatmap at the end of the parse
C10_Witness ==
    /\ Succeeded
    /\ section = "General"
    /\ loc.mode = <<"MNA">>
    /\ map.mode = "MNA"

\* C11: after a successful parse of an input without a StackLeniency key (build
\* with the `osu` feature), Beatmap.stack_leniency is 0.7.
C11_StackLeniencyDefault ==
    (/\ Succeeded
     /\ "osu" \in feat
     /\ <<"S", "t", "a", "c", "k", "L", "e", "n", "i", "e", "n", "c", "y">> \notin keys)
        => map.stack_leniency = Fin(7)

\* -100 / beat_len in tenths, brought into [0.1, 10.0]
ClampedQuotient(b) ==
    LET q == IF b.cls = "ninf" THEN 0 ELSE (0 - 10000) \div b.v
    IN  IF q < 1 THEN 1 ELSE IF q > 100 THEN 100 ELSE q

\* C12: a TimingPoints line that parses appends exactly one record to exactly
\* one list and leaves the other list as it was: a negative beat length appends
\* a DifficultyPoint whose speed multiplier is -100 / beat length brought into
\* [0.1, 10.0], a non-negative one appends a TimingPoint with that beat length;
\* every speed multiplier of difficulty_points lies in [0.1, 10.0].
C12_TimingLine ==
    [][/\ (section = "TimingPoints" /\ disp'.what = "field" /\ result' = "none") =>
            LET parts == split(line', ",")
                time  == parse_float(trim(parts[1])).f.v
                b     == parse_float(trim(parts[2])).f
            IN  /\ Len(map'.timing_points) + Len(map'.difficulty_points)
                      = Len(map.timing_points) + Len(map.difficulty_points) + 1
                /\ (b.cls = "ninf" \/ (b.cls = "fin" /\ b.v < 0)) =>
                      /\ map'.timing_points = map.timing_points
                      /\ map'.difficulty_points =
                            Append(map.difficulty_points,
                                   [time |-> time, speed_multiplier |-> ClampedQuotient(b)])
                /\ (b.cls = "inf" \/ (b.cls = "fin" /\ b.v >= 0)) =>
                      /\ map'.difficulty_points = map.difficulty_points
                      /\ map'.timing_points =
                            Append(map.timing_points, [time |-> time, beat_len |-> b])
                /\ \/ map'.timing_points = map.timing_points
                   \/ map'.difficulty_points = map.difficulty_points
       /\ \A i \in 1..Len(map'.difficulty_points) :
            map'.difficulty_points[i].speed_multiplier \in 1..100]_vars

\* a beat length of -5 read after a timing point: its quotient 20 is stored as 10
C12_Witness ==
    /\ disp = [what |-> "field", by |-> "TimingPoints"]
    /\ result = "none"
    /\ line = <<"5", ",", "-", "5">>
    /\ Len(map.timing_points) = 1
    /\ map.difficulty_points = <<[time |-> 50, speed_multiplier |-> 100]>>

\* bit i of a type value
Bit(k, i) == (k \div (2 ^ i)) % 2 = 1

\* the variant the bits 0, 1, 3 and 7 of a type value decide, "" when none is set
VariantOf(k) ==
    IF Bit(k, 0) THEN "Circle"
    ELSE IF Bit(k, 1) THEN "Slider"
    ELSE IF Bit(k, 3) THEN "Spinner"
    ELSE IF Bit(k, 7) THEN "Hold"
    ELSE ""

\* the type value of a [HitObjects] line
TypeOf(l) == parse_uint(split(l, ",")[4], U8Max).v

\* C13: for every type value 0..255 of a hit-object line the variant is decided
\* by the bits 0 (circle), 1 (slider), 3 (spinner) and 7 (hold) alone, the first
\* set one in that order; when none of them is set the parse fails with
\* UnknownHitObjectKind.
C13_TypeBits ==
    [][(section = "HitObjects" /\ disp'.what = "field") =>
          IF VariantOf(TypeOf(line')) = ""
          THEN result' = "UnknownHitObjectKind" /\ pc' = "done"
          ELSE /\ result' = "none"
               /\ Len(map'.hit_objects) = Len(map.hit_objects) + 1
               /\ map'.hit_objects[Len(map'.hit_objects)].kind.tag
                     = VariantOf(TypeOf(line'))]_vars

\* the type 116 (bits 2, 4, 5 and 6) after a line that was stored
C13_Witness ==
    /\ result = "UnknownHitObjectKind"
    /\ disp = [what |-> "field", by |-> "HitObjects"]
    /\ TypeOf(line) = 116
    /\ Len(map.hit_objects) = 1
    /\ map.hit_objects[1].kind.tag = "Hold"

\* C14: each stored hit-object line adds one to exactly one counter: n_circles
\* for the circle bit, n_sliders for the slider bit and for the hold bit,
\* n_spinners for the spinner bit; so n_circles + n_sliders + n_spinners is the
\* length of hit_objects, in a returned Beatmap too.
C14_Counters ==
    [][/\ (section = "HitObjects" /\ disp'.what = "field" /\ result' = "none") =>
            LET v == VariantOf(TypeOf(line'))
            IN  /\ map'.n_circles = map.n_circles + (IF v = "Circle" THEN 1 ELSE 0)
                /\ map'.n_sliders = map.n_sliders + (IF v \in {"Slider", "Hold"} THEN 1 ELSE 0)
                /\ map'.n_spinners = map.n_spinners + (IF v = "Spinner" THEN 1 ELSE 0)
       /\ result' \in {"none", "ok"} =>
            map'.n_circles + map'.n_sliders + map'.n_spinners = Len(map'.hit_objects)]_vars

\* a returned Beatmap of a slider and a hold note: n_sliders is 2
C14_Witness ==
    /\ Succeeded
    /\ Len(map.hit_objects) = 2
    /\ map.hit_objects[1].kind.tag = "Slider"
    /\ map.hit_objects[2].kind.tag = "Hold"
    /\ map.n_sliders = 2
    /\ map.n_circles = 0
    /\ map.n_spinners = 0

\* a value of the model's f32/f64 that is neither NaN nor an infinity
IsFinite(f) == f.cls = "fin"

\* the floating-point values a hit object holds besides its start time
ObjectFloats(h) ==
    {h.pos[1], h.pos[2]}
        \cup (IF h.kind.tag \in {"Spinner", "Hold"} THEN {h.kind.end_time} ELSE {})
        \cup (IF h.kind.tag = "Slider" THEN {h.kind.pixel_len} ELSE {})

\* C15: no Beatmap returned by a successful parse holds a NaN or an infinity
\* that was read from the input: the beat lengths of the timing points, and the
\* coordinates, end times and pixel lengths of the hit objects are finite (the
\* times are finite by construction).
C15_FiniteFloats ==
    Succeeded =>
        /\ \A i \in 1..Len(map.timing_points) : IsFinite(map.timing_points[i].beat_len)
        /\ \A i \in 1..Len(map.hit_objects) :
               \A f \in ObjectFloats(map.hit_objects[i]) : IsFinite(f)

\* the last hit object of a list
LastObject(m) == m.hit_objects[Len(m.hit_objects)]

\* the field of a [HitObjects] line that holds the repeats of a slider
RepeatsOf(l) == parse_usize(split(l, ",")[7])

\* the line step stored a slider
StoredSlider ==
    /\ section = "HitObjects"
    /\ disp'.what = "field"
    /\ result' = "none"
    /\ Len(map'.hit_objects) = Len(map.hit_objects) + 1
    /\ LastObject(map').kind.tag = "Slider"

\* C16: a slider line whose repeats r decode above 9000 fails with
\* TooManyRepeats whatever its control points are; a slider line with r <= 9000
\* never fails so, and the slider it stores has r - 1 repeats (0 for r = 0);
\* every stored repeat count is at most 8999.
C16_Repeats ==
    [][(/\ section = "HitObjects"
        /\ disp'.what = "field"
        /\ VariantOf(TypeOf(line')) = "Slider"
        /\ Len(split(line', ",")) >= 7
        /\ RepeatsOf(line').ok)
       => /\ RepeatsOf(line').v > 9000 <=> result' = "TooManyRepeats"
          /\ StoredSlider =>
                LastObject(map').kind.repeats =
                    IF RepeatsOf(line').v = 0 THEN 0 ELSE RepeatsOf(line').v - 1
          /\ \A i \in 1..Len(map'.hit_objects) :
                map'.hit_objects[i].kind.tag = "Slider" =>
                    map'.hit_objects[i].kind.repeats <= 8999]_vars

\* a slider with 8999 repeats is stored, then the line B|x with 9001 repeats,
\* whose control point does not convert, fails with TooManyRepeats
C16_Witness ==
    /\ result = "TooManyRepeats"
    /\ line = <<"0", ",", "0", ",", "5", ",", "2", ",", "0", ",", "B", "|", "x", ",",
                "9", "0", "0", "1", ",", "1", "0", "0">>
    /\ Len(map.hit_objects) = 1
    /\ map.hit_objects[1].kind.tag = "Slider"
    /\ map.hit_objects[1].kind.repeats = 8999

\* the line of the curve B|100:0|200:0|200:100 with anchor (0, 0) and repeats 2
BezierLine ==
    <<"0", ",", "0", ",", "5", ",", "2", ",", "0", ",",
      "B", "|", "1", "0", "0", ":", "0", "|", "2", "0", "0", ":", "0", "|",
      "2", "0", "0", ":", "1", "0", "0", ",", "2", ",", "1", "0", "0">>

\* the control points of a list that carry a path type
Typed(cps) == {i \in 1..Len(cps) : cps[i].kind # <<>>}

\* C17 as stated: the line of B|100:0|200:0|200:100 with anchor (0, 0) and
\* repeats 2 stores a slider of one Bezier segment whose control points are
\* three, with 1 repeat.
C17_ThreeControlPoints ==
    [][(section = "HitObjects" /\ disp'.what = "field" /\ line' = BezierLine)
       => /\ StoredSlider
          /\ LastObject(map').kind.repeats = 1
          /\ Typed(LastObject(map').kind.control_points) = {1}
          /\ LastObject(map').kind.control_points[1].kind = <<"Bezier">>
          /\ Len(LastObject(map').kind.control_points) = 3]_vars

\* C17, amended: the line stores a slider with 1 repeat and one Bezier segment
\* of four control points: the anchor itself at (0, 0) relative to the anchor,
\* which carries the type Bezier, and the three points of the line relative to
\* the anchor, (100, 0), (200, 0) and (200, 100), which carry no type.
C17_BezierSlider ==
    [][(section = "HitObjects" /\ disp'.what = "field" /\ line' = BezierLine)
       => /\ StoredSlider
          /\ LastObject(map').kind.repeats = 1
          /\ LastObject(map').kind.control_points =
                <<[pos |-> <<Fin(0), Fin(0)>>, kind |-> <<"Bezier">>],
                  [pos |-> <<Fin(1000), Fin(0)>>, kind |-> <<>>],
                  [pos |-> <<Fin(2000), Fin(0)>>, kind |-> <<>>],
                  [pos |-> <<Fin(2000), Fin(1000)>>, kind |-> <<>>]>>]_vars

\* the line of the curve was read and its slider stored
C17_Witness ==
    /\ section = "HitObjects"
    /\ disp.what = "field"
    /\ line = BezierLine
    /\ result = "none"
    /\ Len(map.hit_objects) = 1
    /\ map.hit_objects[1].kind.tag = "Slider"
    /\ Len(map.hit_objects[1].kind.control_points) = 4

\* the `|` tokens of the control-point field of a [HitObjects] line
PointSplit(l) == split(split(l, ",")[6], "|")

\* the points of the whole object, relative to its anchor (0, 0): the anchor
\* and every x:y token of the line, whatever segment it lies in
ObjectPoints(l) ==
    LET toks == SelectSeq(Tail(PointSplit(l)), LAMBDA t : Len(t) > 1)
    IN  <<<<Fin(0), Fin(0)>>>>
            \o [i \in 1..Len(toks) |-> read_point(toks[i], <<Fin(0), Fin(0)>>).pt.pos]

\* the path type of a curve of type P by the points of the whole object
TypeByObject(l) ==
    LET ps == ObjectPoints(l)
    IN  IF Len(ps) = 3
        THEN IF is_linear(ps[1], ps[2], ps[3]) THEN "Linear" ELSE "PerfectCurve"
        ELSE "Bezier"

\* C18: the path type of a stored slider whose leading token is P is decided
\* by the points of the whole object: Linear for exactly three collinear
\* points, PerfectCurve for exactly three points that are not collinear, Bezier
\* for every other number of points.
C18_PerfectCurve ==
    [][(StoredSlider /\ PointSplit(line')[1] = <<"P">>)
       => LastObject(map').kind.control_points[1].kind = <<TypeByObject(line')>>]_vars

StablySorted(s, r) ==
    /\ Len(r) = Len(s)
    /\ IsSorted(r)
    /\ \E p \in IndexPerms(Len(s)) :
          /\ \A i \in 1..Len(s) : r[i] = s[p[i]]
          /\ \A i, j \in 1..Len(s) :
                (i < j /\ CmpKey(r[i]) = CmpKey(r[j])) => p[i] < p[j]

Adjusted == attrs # <<>> /\ mods # <<>>

\* C21: with mods that do not change the map, the attributes returned are the
\* base values of the Beatmap and the clock rate 1, whatever speed,
\* od_ar_hp_multiplier, hr and ez return.
C21_NoChange ==
    (Adjusted /\ ~mods[1].change_map) =>
        attrs[1] = [ar |-> F64(map.ar), od |-> F64(map.od), cs |-> F64(map.cs),
                    hp |-> F64(map.hp), clock_rate |-> Rat(1, 1)]

\* mods that do not change the map but whose other methods would: speed 1.5,
\* multiplier 1.4, hr
C21_Witness ==
    /\ Adjusted
    /\ ~mods[1].change_map
    /\ mods[1].speed = Rat(3, 2)
    /\ mods[1].od_ar_hp_multiplier = Rat(7, 5)
    /\ mods[1].hr
    /\ map.ar = Fin(90)
    /\ attrs[1].ar = Rat(9, 1)
    /\ attrs[1].clock_rate = Rat(1, 1)

\* the adjustment of AR 9, OD 8, CS 4, HP 5 with clock rate 1.5 and multiplier 1
Example22 ==
    /\ Adjusted
    /\ mods[1].change_map
    /\ mods[1].speed = Rat(3, 2)
    /\ mods[1].od_ar_hp_multiplier = Rat(1, 1)
    /\ map.ar = Fin(90) /\ map.od = Fin(80) /\ map.cs = Fin(40) /\ map.hp = Fin(50)

\* C22 as stated: the adjusted AR is strictly less than 9, the OD is 8, and
\* both lie in [0, 10].
C22_ArLower ==
    Example22 =>
        /\ RLt(attrs[1].ar, Rat(9, 1))
        /\ attrs[1].od = Rat(8, 1)
        /\ RLe(Rat(0, 1), attrs[1].ar) /\ RLe(attrs[1].ar, Rat(10, 1))
        /\ RLe(Rat(0, 1), attrs[1].od) /\ RLe(attrs[1].od, Rat(10, 1))

\* C22, amended: the adjusted AR is 10 1/3 (the hit window of AR 9, 600 ms,
\* divided by 1.5 is 400 ms), strictly greater than 9 and above 10; the OD is
\* 8, unchanged by the clock rate and inside [0, 10]; the clock rate returned
\* is 1.5.
C22_ArHigher ==
    Example22 =>
        /\ attrs[1].ar = Rat(31, 3)
        /\ RLt(Rat(9, 1), attrs[1].ar) /\ RLt(Rat(10, 1), attrs[1].ar)
        /\ attrs[1].od = Rat(8, 1)
        /\ attrs[1].clock_rate = Rat(3, 2)

\* the adjustment of the example was made, without hr and ez
C22_Witness == Example22 /\ ~mods[1].hr /\ ~mods[1].ez /\ attrs[1].cs = Rat(4, 1)

\* v brought into [0, 10]
Clamp10(v) == RMin(RMax(v, Rat(0, 1)), Rat(10, 1))

\* the AR the adjustment starts from: base AR times the multiplier
ScaledAR == RMul(F64(map.ar), mods[1].od_ar_hp_multiplier)

\* C28: with mods that change the map, at clock rate 1 the adjusted AR is the
\* base AR times the multiplier brought into [0, 10]; at a clock rate above 1
\* it is not lower than that value.
C28_ArRoundTrip ==
    (Adjusted /\ mods[1].change_map) =>
        /\ mods[1].speed = Rat(1, 1) => attrs[1].ar = Clamp10(ScaledAR)
        /\ RLt(Rat(1, 1), mods[1].speed) => RLe(Clamp10(ScaledAR), attrs[1].ar)

\* base AR 10 with multiplier 1.4 at clock rate 1: 14 comes back as 10
C28_Witness ==
    /\ Adjusted
    /\ mods[1].change_map
    /\ mods[1].speed = Rat(1, 1)
    /\ mods[1].od_ar_hp_multiplier = Rat(7, 5)
    /\ map.ar = Fin(100)
    /\ attrs[1].ar = Rat(10, 1)

\* r holds the elements of s, in some order
PermutationOf(s, r) ==
    /\ Len(r) = Len(s)
    /\ \E p \in IndexPerms(Len(s)) : \A i \in 1..Len(s) : r[i] = s[p[i]]

\* C23: the step that ends a [HitObjects] section while the mode is not Mania
\* applies the other policy, leaving hit_objects as it is when no out-of-order
\* line was seen and in time order otherwise; no step of a [General] section
\* changes hit_objects, also not the one that sets the mode to Mania.
C23_PolicyAtSectionEnd ==
    [][/\ (/\ section = "HitObjects"
           /\ map.mode # "MNA"
           /\ disp'.what \in {"eof", "section"})
          => IF loc.unsorted
             THEN /\ PermutationOf(map.hit_objects, map'.hit_objects)
                  /\ IsSorted(map'.hit_objects)
             ELSE map'.hit_objects = map.hit_objects
       /\ section = "General" => map'.hit_objects = map.hit_objects
       /\ (/\ section = "General"
           /\ disp'.what \in {"eof", "section"}
           /\ loc.mode = <<"MNA">>)
          => map'.mode = "MNA"]_vars

\* the file held a circle at 10, the line [HitObjects] again, a circle at 5,
\* then [General] with `Mode: 3`: the parse ended in the mode Mania with the
\* circles in the order of the file, which is not the order of their times
C23_Witness ==
    /\ Succeeded
    /\ section = "General"
    /\ map.mode = "MNA"
    /\ Len(map.hit_objects) = 2
    /\ map.hit_objects[1].start_time = 100
    /\ map.hit_objects[2].start_time = 50

\* C24: in a [TimingPoints] section, a list whose records have arrived in
\* non-decreasing order of time has its out-of-order flag false, and the end of
\* the section leaves such a list exactly as it arrived.
C24_SortedInputKept ==
    [][(section = "TimingPoints" /\ pc = "body")
       => /\ (result' = "none" /\ IsSorted(map'.timing_points))
                => ~loc'.unsorted_timings
          /\ (result' = "none" /\ IsSorted(map'.difficulty_points))
                => ~loc'.unsorted_difficulties
          /\ (disp'.what = "eof" /\ IsSorted(map.timing_points))
                => map'.timing_points = map.timing_points
          /\ (disp'.what = "eof" /\ IsSorted(map.difficulty_points))
                => map'.difficulty_points = map.difficulty_points]_vars

\* C25: the end of a [TimingPoints] section that saw an out-of-order record
\* leaves the list in order of time with records of equal time in their
\* arrival order.
C25_StableSort ==
    [][(section = "TimingPoints" /\ pc = "body" /\ disp'.what = "eof")
       => /\ loc.unsorted_timings
                => StablySorted(map.timing_points, map'.timing_points)
          /\ loc.unsorted_difficulties
                => StablySorted(map.difficulty_points, map'.difficulty_points)]_vars

\* C30: a line with the slider flag that is parsed without error is stored as
\* a Slider (never as a Circle) with at least one control point, the first of
\* which is the anchor, at (0, 0) relative to itself, and carries a path type.
C30_SliderStored ==
    [][(/\ section = "HitObjects"
        /\ disp'.what = "field"
        /\ VariantOf(TypeOf(line')) = "Slider"
        /\ result' = "none")
       => /\ StoredSlider
          /\ LastObject(map').kind.control_points # <<>>
          /\ LastObject(map').kind.control_points[1].pos = <<Fin(0), Fin(0)>>
          /\ LastObject(map').kind.control_points[1].kind # <<>>]_vars

\* the line with the empty control-point field was stored: a Slider whose only
\* control point is the anchor, of type Catmull
C30_Witness ==
    /\ result = "none"
    /\ line = <<"0", ",", "0", ",", "5", ",", "2", ",", "0", ",", ",", "1", ",",
                "1", "0", "0">>
    /\ Len(map.hit_objects) = 1
    /\ map.hit_objects[1].kind.tag = "Slider"
    /\ map.hit_objects[1].kind.control_points =
          <<[pos |-> <<Fin(0), Fin(0)>>, kind |-> <<"Catmull">>]>>

\* a control point at (x, y), in tenths, with the path type k (None: <<>>)
CP(x, y, k) == [pos |-> <<Fin(x), Fin(y)>>, kind |-> k]

\* the point string X|1:1|2:2|2:2|3:3 as the only explicit segment of a slider
RepeatLine ==
    <<"0", ",", "0", ",", "5", ",", "2", ",", "0", ",", "X", "|", "1", ":",
      "1", "|", "2", ":", "2", "|", "2", ":", "2", "|", "3", ":", "3", ",",
      "1", ",", "1", "0", "0">>

\* the same point string as the second explicit segment
RepeatSecondLine ==
    <<"0", ",", "0", ",", "5", ",", "2", ",", "0", ",", "B", "|", "5", ":",
      "5", "|", "X", "|", "1", ":", "1", "|", "2", ":", "2", "|", "2", ":",
      "2", "|", "3", ":", "3", ",", "1", ",", "1", "0", "0">>

\* a repetition at the last point of the segment
RepeatAtLastLine ==
    <<"0", ",", "0", ",", "5", ",", "2", ",", "0", ",", "B", "|", "1", ":",
      "1", "|", "2", ":", "2", "|", "2", ":", "2", ",", "1", ",", "1", "0",
      "0">>

\* a position given three times in a row
RepeatTwiceLine ==
    <<"0", ",", "0", ",", "5", ",", "2", ",", "0", ",", "B", "|", "2", ":",
      "2", "|", "2", ":", "2", "|", "2", ":", "2", "|", "3", ":", "3", ",",
      "1", ",", "1", "0", "0">>

\* the control points of the slider the step stored for the line l
Stores(l, cps) ==
    (section = "HitObjects" /\ disp'.what = "field" /\ line' = l)
        => StoredSlider /\ LastObject(map').kind.control_points = cps

\* C26: for X|1:1|2:2|2:2|3:3 the output is (1,1), (2,2) and (3,3): the
\* repeated (2,2) appears once, closes the first segment and is given the
\* decoded type (Catmull for X), and (3,3) follows without a type; as the first
\* explicit segment the anchor precedes the points, as a later one the segment
\* is exactly {(1,1), (2,2)} and {(3,3)}; a repetition at the last point of a
\* segment splits nothing and both copies are kept; of a position given three
\* times in a row one copy is kept, with the type.
C26_ImplicitSegments ==
    [][/\ Stores(RepeatLine,
                 <<CP(0, 0, <<"Catmull">>), CP(10, 10, <<>>),
                   CP(20, 20, <<"Catmull">>), CP(30, 30, <<>>)>>)
       /\ Stores(RepeatSecondLine,
                 <<CP(0, 0, <<"Bezier">>), CP(50, 50, <<>>),
                   CP(10, 10, <<"Catmull">>), CP(20, 20, <<"Catmull">>),
                   CP(30, 30, <<>>)>>)
       /\ Stores(RepeatAtLastLine,
                 <<CP(0, 0, <<"Bezier">>), CP(10, 10, <<>>),
                   CP(20, 20, <<>>), CP(20, 20, <<>>)>>)
       /\ Stores(RepeatTwiceLine,
                 <<CP(0, 0, <<"Bezier">>), CP(20, 20, <<"Bezier">>),
                   CP(30, 30, <<>>)>>)]_vars

\* the slider of X|1:1|2:2|2:2|3:3 was stored, then the one of B|1:1|2:2|2:2
C26_Witness ==
    /\ result = "none"
    /\ line = RepeatAtLastLine
    /\ Len(map.hit_objects) = 2
    /\ Len(map.hit_objects[1].kind.control_points) = 4
    /\ Typed(map.hit_objects[1].kind.control_points) = {1, 3}
    /\ Len(map.hit_objects[2].kind.control_points) = 4
    /\ Typed(map.hit_objects[2].kind.control_points) = {1}

\* Of the `|` tokens T of a control-point field: a token opens an explicit
\* segment when it is the first one or a type descriptor (at most one
\* character); every other token is a point
Opens(T, i) == i = 1 \/ Len(T[i]) <= 1

\* the position of the point token i relative to the anchor a; 0 stands for
\* the anchor itself
RelativeTo(T, i, a) ==
    IF i = 0 THEN <<FSub(a[1], a[1]), FSub(a[2], a[2])>>
    ELSE LET p == read_point(T[i], <<Fin(0), Fin(0)>>).pt.pos
         IN  <<FSub(p[1], a[1]), FSub(p[2], a[2])>>

\* the point token i repeats the position of the point before it in its
\* explicit segment (the anchor for the first point of the first one) and is
\* not the last point of that segment: an implicit segment starts here, at the
\* copy before it
Repeats(T, i, a) ==
    /\ i \in 2..Len(T)
    /\ ~Opens(T, i)
    /\ i < Len(T) /\ ~Opens(T, i + 1)
    /\ \/ i = 2
       \/ ~Opens(T, i - 1)
    /\ PosEq(RelativeTo(T, i, a), RelativeTo(T, IF i = 2 THEN 0 ELSE i - 1, a))

\* the points of the output in order: the anchor and every point token but the
\* repeating ones
Kept(T, a) ==
    <<0>> \o SelectSeq([i \in 1..Len(T) |-> i],
                       LAMBDA i : ~Opens(T, i) /\ ~Repeats(T, i, a))

\* the point i is the first point of a segment: of the first explicit segment
\* (the anchor), of a later explicit segment (the token after a descriptor), or
\* of an implicit one (the copy kept of a repeated position)
StartsSegment(T, i, a) ==
    \/ i = 0
    \/ i > 2 /\ Opens(T, i - 1)
    \/ Repeats(T, i + 1, a)

\* the control points cps are the kept points K of the tokens T, each relative
\* to the anchor a, with a path type on the first points of segments only
TaggedAtStarts(T, a, cps, K) ==
    /\ Len(cps) = Len(K)
    /\ \A k \in 1..Len(K) :
          /\ cps[k].pos = RelativeTo(T, K[k], a)
          /\ (cps[k].kind # <<>>) <=> StartsSegment(T, K[k], a)

\* C27: in the control_points of every stored Slider each point is positioned
\* relative to the anchor of the hit object, the anchor itself being (0, 0), and
\* a point carries a path type if and only if it is the first point of a
\* segment: the anchor, the first point of a later explicit segment, or the
\* point at which an implicit segment starts, which is the copy kept of a
\* position given twice in a row (it ends the segment before it as well).
C27_TagsOnSegmentStarts ==
    [][StoredSlider
       => TaggedAtStarts(PointSplit(line'), LastObject(map').pos,
                         LastObject(map').kind.control_points,
                         Kept(PointSplit(line'), LastObject(map').pos))]_vars

\* the slider at the anchor (10, 20) with the points 11:21 and 12:22
RelativeLine ==
    <<"1", "0", ",", "2", "0", ",", "5", ",", "2", ",", "0", ",", "B", "|", "1",
      "1", ":", "2", "1", "|", "1", "2", ":", "2", "2", ",", "1", ",", "1", "0",
      "0">>

\* the slider at (10, 20) was stored with the points (0, 0), (1, 1) and (2, 2),
\* after the slider of two explicit segments with a repeated position, which
\* carries three path types
C27_Witness ==
    /\ result = "none"
    /\ line = RelativeLine
    /\ Len(map.hit_objects) = 2
    /\ map.hit_objects[1].kind.control_points =
          <<CP(0, 0, <<"Bezier">>), CP(50, 50, <<>>), CP(10, 10, <<"Catmull">>),
            CP(20, 20, <<"Catmull">>), CP(30, 30, <<>>)>>
    /\ map.hit_objects[2].pos = <<Fin(100), Fin(200)>>
    /\ map.hit_objects[2].kind.control_points =
          <<CP(0, 0, <<"Bezier">>), CP(10, 10, <<>>), CP(20, 20, <<>>)>>

\* the mode a [General] section with the locals lc gives the Beatmap
ModeOf(lc) == IF lc.mode = <<>> THEN "STD" ELSE lc.mode[1]

\* C29: the mode of the Beatmap is that of the last [General] section alone. The
\* step that ends a [General] section without an error sets the mode to the one
\* of the last Mode key of this section, Standard when the section had none,
\* whatever the mode was before; every [General] section starts without a mode
\* of its own; no other step changes the mode. So a parse that succeeds at the
\* end of a [General] section has the mode of that section.
C29_LastGeneralDecides ==
    [][/\ (section = "General" /\ disp'.what \in {"eof", "section"} /\ result' # "panic")
           => map'.mode = ModeOf(loc)
       /\ (section = "General" /\ disp'.what = "skipped") => loc'.mode = loc.mode
       /\ (section = "General" /\ disp'.what = "field" /\ result' = "none"
             /\ KeyOf(line') # <<"M", "o", "d", "e">>) => loc'.mode = loc.mode
       /\ (disp'.what = "section" /\ section' = "General" /\ result' = "none")
           => loc'.mode = <<>>
       /\ (section # "General" \/ disp'.what \notin {"eof", "section"})
           => map'.mode = map.mode
       /\ (result' = "ok" /\ section' = "General") => map'.mode = ModeOf(loc')]_vars

\* after a [General] section that chose Mania, a second one with the only key
\* StackLeniency ended the input: the parse succeeded in the mode Standard
C29_Witness ==
    /\ Succeeded
    /\ section = "General"
    /\ nread = MaxLines - 2
    /\ loc.mode = <<>>
    /\ loc.stack_leniency = <<Fin(5)>>
    /\ map.mode = "STD"

=============================================================================
